---- MODULE Spec2Model ----
(***************************************************************************)
(* A model of ArcaVox's sample buffering core                              *)
(* (audio/src/stream/buffer.rs), of the values it is built on              *)
(* (audio/src/stream/mod.rs) and of the Executor that drives it            *)
(* (src/stream/executor.rs), and of the pitches of audio/src/pitch.rs.     *)
(*                                                                         *)
(* A SampleBuffer is created, frames are pushed into it and windows are    *)
(* read from it (get_window); it may then be moved into a PeriodBuffer     *)
(* (PeriodBuffer::new), which is pushed to and drained with next().  A     *)
(* window view (Period) borrows the buffer: every &mut call (push, next)   *)
(* ends the borrow, so the views are dropped by those actions.             *)
(*                                                                         *)
(* The code never inspects a sample's value, so the samples of the input   *)
(* stream are tagged 1, 2, 3, ... by their flat arrival position: a sample *)
(* that is lost, duplicated or misplaced is then visible in every state.   *)
(*                                                                         *)
(* A failed assert!/unwrap() is a panic: it is recorded in `panic` and the *)
(* object is not used again.                                               *)
(*                                                                         *)
(* The specifications share the variables.  Spec is the life of a          *)
(* SampleBuffer and of the PeriodBuffer it is moved into, with the views   *)
(* and the timeseries iterator read from them.  SpecRing is a SampleBuffer *)
(* of any capacity filled by push and push_some_mono.  SpecAccumulator is a*)
(* FrameAccumulator fed scalar by scalar.  SpecInput is a BufferedInput    *)
(* reading frames from its source and returning windows.  SpecExecutor is  *)
(* the Executor thread (src/stream/executor.rs) between its producer and   *)
(* its consumer, SpecExecutorFair the same under fair scheduling.          *)
(* SpecTime applies the operations on time values to pairs of operands,    *)
(* SpecWallClock the conversion of a Duration to wall-clock time,          *)
(* SpecPitch the conversions of audio/src/pitch.rs to texts and pitches.   *)
(* Each leaves the variables of the others at their absent values.         *)
(***************************************************************************)
EXTENDS Integers, Sequences, FiniteSets, TLC

----------------------------------------------------------------------------
(* Bounds of the model *)

MaxChannels == 2
MaxCap == 4
MaxFrame == 4
MaxCount == 6
MaxPeriod == 3
MaxStride == 3
MaxWindows == 8
MaxScalars == 6
MaxReconfigure == 1
MaxReads == 5
MaxUpstream == 1
MaxExFrame == 2
MaxExSamples == 18
MaxIndex == 10
MaxTail == 2
MaxOctave == 3
MaxSecs == 3

Rates == {44100, 48000}

\* The rates an Executor is built with; the window length is a tenth of the
\* rate, so these are low ones: the windows are 0, 1 and 2 samples long.
ExecutorRates == {5, 10, 20}

----------------------------------------------------------------------------
(* Helpers *)

Min(a, b) == IF a <= b THEN a ELSE b

\* The tagged input stream: the samples with flat positions from+1 .. from+n.
Tags(from, n) == [i \in 1..n |-> from + i]

----------------------------------------------------------------------------
(* std::collections::VecDeque<f32>, as buffer.rs uses it: an array of      *)
(* `capacity` slots, the physical index `head` of the front element and    *)
(* the number `len` of elements.  Slots are 1-based here, indices 0-based. *)

\* The content of a slot that was never written.
Empty == -1

\* The smallest capacity a VecDeque<f32> allocates when it grows from empty.
MinNonZeroCap == 4

\* VecDeque::new() followed by reserve_exact(max_len).
VecDeque_new(max_len) ==
    [buf |-> [i \in 1..max_len |-> Empty], head |-> 0, len |-> 0]

capacity(r) == Len(r.buf)

\* (mutant) The ring is made contiguous again after the front element has
\* left: the remaining elements move to the start of the array.
pop_front_rotating(r) ==
    IF r.len = 0 THEN r
    ELSE [buf  |-> [i \in 1..Len(r.buf) |->
                       IF i <= r.len - 1
                       THEN r.buf[((r.head + i) % Len(r.buf)) + 1]
                       ELSE -1],
          head |-> 0,
          len  |-> r.len - 1]

\* VecDeque::pop_front: the front element leaves, the others do not move.
pop_front(r) ==
    IF r.len = 0 THEN r
    ELSE [r EXCEPT !.head = (r.head + 1) % capacity(r), !.len = r.len - 1]

\* The capacity a full VecDeque<f32> grows to (RawVec's amortised growth:
\* doubled, and at least 4 slots for a 4-byte element).
grown_capacity(old_cap) ==
    IF 2 * old_cap >= MinNonZeroCap THEN 2 * old_cap ELSE MinNonZeroCap

\* VecDeque::grow on a full ring: the array grows and the elements keep
\* their order; a wrapped ring has its shorter section moved.
grow(r) ==
    LET old_cap  == capacity(r)
        new_cap  == grown_capacity(old_cap)
        head_len == old_cap - r.head
        tail_len == r.len - head_len
        wide     == [i \in 1..new_cap |-> IF i <= old_cap THEN r.buf[i] ELSE Empty]
    IN  IF r.head <= old_cap - r.len
        THEN [r EXCEPT !.buf = wide]
        ELSE IF head_len > tail_len /\ new_cap - old_cap >= tail_len
        THEN [r EXCEPT !.buf = [i \in 1..new_cap |->
                                   IF i > old_cap /\ i <= old_cap + tail_len
                                   THEN r.buf[i - old_cap] ELSE wide[i]]]
        ELSE [r EXCEPT !.buf = [i \in 1..new_cap |->
                                   IF i > new_cap - head_len
                                   THEN r.buf[i - (new_cap - head_len) + r.head]
                                   ELSE wide[i]],
                       !.head = new_cap - head_len]

\* VecDeque::push_back: a full ring grows first; the element is written
\* after the last one, wrapping around the end of the array.
push_back(r, s) ==
    LET g == IF r.len = capacity(r) THEN grow(r) ELSE r
    IN  [g EXCEPT !.buf[((g.head + g.len) % capacity(g)) + 1] = s,
                  !.len = g.len + 1]

\* VecDeque::as_slices: the elements from head to the array end, then the
\* wrapped ones from slot 0.
as_slices(r) ==
    IF r.len = 0 THEN << <<>>, <<>> >>
    ELSE LET head_len == capacity(r) - r.head IN
         IF head_len >= r.len
         THEN << SubSeq(r.buf, r.head + 1, r.head + r.len), <<>> >>
         ELSE << SubSeq(r.buf, r.head + 1, capacity(r)),
                 SubSeq(r.buf, 1, r.len - head_len) >>

----------------------------------------------------------------------------
(* SampleBuffer *)

SampleBuffer_new(channels, sample_rate, max_len) ==
    [max_len      |-> max_len,
     channels     |-> channels,
     sample_rate  |-> sample_rate,
     buffers      |-> [ch \in 0..(channels - 1) |-> VecDeque_new(max_len)],
     sample_count |-> 0]

SampleBuffer_len(sb) == Min(sb.sample_count, sb.max_len)

oldest_sample_index(sb) == sb.sample_count - SampleBuffer_len(sb)

\* (mutant) The flat length of the frame is not checked.
SampleBuffer_push_panic_no_length_check(sb, f) ==
    IF f.channels # sb.channels THEN "FormatMismatch"
    ELSE IF f.sample_rate # sb.sample_rate THEN "FormatMismatch"
    ELSE "none"

\* The assertions of SampleBuffer::push, in the order they are made.
SampleBuffer_push_panic(sb, f) ==
    IF f.channels # sb.channels THEN "FormatMismatch"
    ELSE IF f.sample_rate # sb.sample_rate THEN "FormatMismatch"
    ELSE IF Len(f.samples) % sb.channels # 0 THEN "Malformed"
    ELSE "none"

\* (mutant) The channels swapped round.
channel_of_shifted(sb, i) == (i + 1) % sb.channels

\* The channel the sample at flat index i of a frame goes to.
channel_of(sb, i) == i % sb.channels

\* (mutant) The full ring is never relieved of its oldest sample: it grows.
push_sample_no_eviction(sb, i, s) ==
    LET ch == i % sb.channels
    IN  [sb EXCEPT !.buffers[ch] = push_back(sb.buffers[ch], s)]

\* One iteration of the loop of SampleBuffer::push, for flat index i.
push_sample(sb, i, s) ==
    LET ch == channel_of(sb, i)
        r  == sb.buffers[ch]
        r1 == IF r.len = sb.max_len THEN pop_front(r) ELSE r
    IN  [sb EXCEPT !.buffers[ch] = push_back(r1, s)]

RECURSIVE push_loop(_, _, _)
push_loop(sb, samples, i) ==
    IF i >= Len(samples) THEN sb
    ELSE push_loop(push_sample(sb, i, samples[i + 1]), samples, i + 1)

\* (mutant) sample_count follows the number of samples retained.
SampleBuffer_push_counting_retained(sb, f) ==
    push_loop([sb EXCEPT !.sample_count =
                   Min(@ + (Len(f.samples) \div sb.channels), sb.max_len)],
              f.samples, 0)

\* SampleBuffer::push once its assertions have passed.
SampleBuffer_push(sb, f) ==
    push_loop([sb EXCEPT !.sample_count = @ + (Len(f.samples) \div sb.channels)],
              f.samples, 0)

\* The loop of SampleBuffer::push_channel: samples are taken from the
\* iterator while fewer than max_count were pushed and the iterator has
\* more; sample_count is left alone.
RECURSIVE push_channel_loop(_, _, _, _, _)
push_channel_loop(sb, ch, samples, max_count, count) ==
    IF count < max_count /\ count < Len(samples)
    THEN LET r  == sb.buffers[ch]
             r1 == IF r.len = sb.max_len THEN pop_front(r) ELSE r
         IN  push_channel_loop(
                 [sb EXCEPT !.buffers[ch] = push_back(r1, samples[count + 1])],
                 ch, samples, max_count, count + 1)
    ELSE [sb |-> sb, pushed |-> count]

push_channel(sb, ch, samples, max_count) ==
    push_channel_loop(sb, ch, samples, max_count, 0)

\* `assert!(usize::from(self.channels) == 1)` of push_some_mono.
push_some_mono_panic(sb) == IF sb.channels = 1 THEN "none" ELSE "NotMono"

\* SampleBuffer::push_some_mono once its assertion has passed: the buffer
\* after the call and the number of samples pushed.
push_some_mono(sb, samples, max_count) ==
    LET r == push_channel(sb, 0, samples, max_count)
    IN  [sb     |-> [r.sb EXCEPT !.sample_count = @ + r.pushed],
         pushed |-> r.pushed]

----------------------------------------------------------------------------
(* Time values (stream/mod.rs) *)

Instant_new(sample_index, sample_rate) ==
    [sample_index |-> sample_index, sample_rate |-> sample_rate]

\* Instant::index asserts that the instant has the rate it is asked for.
Instant_index_panic(i, rate) ==
    IF i.sample_rate = rate THEN "none" ELSE "RateMismatch"

Instant_index(i, rate) == i.sample_index

\* (mutant) Instants of different rates are compared by their indices.
Instant_cmp_panic_never(a, b) == "none"

\* Ord::cmp for Instant asserts that the two rates are equal.
Instant_cmp_panic(a, b) ==
    IF a.sample_rate = b.sample_rate THEN "none" ELSE "RateMismatch"

\* Ord::cmp for Instant once its assertion has passed: the ordering of the
\* two sample indices.
Instant_cmp(a, b) ==
    IF a.sample_index < b.sample_index THEN "Less"
    ELSE IF a.sample_index = b.sample_index THEN "Equal"
    ELSE "Greater"

\* PartialOrd::partial_cmp for Instant: Some(self.cmp(other)).
Instant_partial_cmp(a, b) == [some |-> TRUE, ordering |-> Instant_cmp(a, b)]

\* a > b, as PartialOrd provides it from partial_cmp.
Instant_gt(a, b) ==
    /\ Instant_partial_cmp(a, b).some
    /\ Instant_partial_cmp(a, b).ordering = "Greater"

Duration_new(sample_count, sample_rate) ==
    [sample_count |-> sample_count, sample_rate |-> sample_rate]

\* (mutant) The subtraction is not checked: a negative difference stands
\* for the value it wraps around to.
unchecked_sub(a, b) == [some |-> TRUE, value |-> a - b]

\* usize::checked_sub: None when the difference would be negative.
checked_sub(a, b) ==
    IF a >= b THEN [some |-> TRUE, value |-> a - b]
    ELSE [some |-> FALSE, value |-> 0]

\* Instant - Instant: the unwrap() of the checked difference is the only
\* failure; the rates of the operands are not looked at, the result takes
\* the left one's.
Instant_sub_panic(a, b) ==
    IF checked_sub(a.sample_index, b.sample_index).some THEN "none"
    ELSE "Underflow"

Instant_sub(a, b) ==
    Duration_new(checked_sub(a.sample_index, b.sample_index).value,
                 a.sample_rate)

\* Instant - Duration, likewise.
Instant_sub_duration_panic(a, d) ==
    IF checked_sub(a.sample_index, d.sample_count).some THEN "none"
    ELSE "Underflow"

Instant_sub_duration(a, d) ==
    Instant_new(checked_sub(a.sample_index, d.sample_count).value,
                a.sample_rate)

\* Instant + Duration: nothing is checked.  (The operands here are far from
\* the width of usize.)
Instant_add_duration(a, d) ==
    Instant_new(a.sample_index + d.sample_count, a.sample_rate)

\* The logical window descriptor super::Period.
Period_new(start_index, sample_count, sample_rate) ==
    [start_index  |-> start_index,
     sample_count |-> sample_count,
     sample_rate  |-> sample_rate]

Period_start(p) == Instant_new(p.start_index, p.sample_rate)

Period_end(p) == Instant_new(p.start_index + p.sample_count, p.sample_rate)

----------------------------------------------------------------------------
(* Window views: buffer::Period, ChannelPeriod, TimeseriesIterator *)

\* A view borrows its buffer; the buffer is passed to the operators that
\* read through the view.
View(start_sample_num, len) ==
    [start_sample_num |-> start_sample_num, len |-> len]

\* (mutant) The end of the window is not checked against sample_count.
get_window_panic_no_end_check(sb, period) ==
    IF period.sample_rate # sb.sample_rate THEN "RateMismatch"
    ELSE IF period.start_index < oldest_sample_index(sb)
    THEN "WindowUnavailable:evicted"
    ELSE "none"

\* The assertions of SampleBuffer::get_window, in the order they are made.
get_window_panic(sb, period) ==
    IF Instant_index_panic(Period_start(period), sb.sample_rate) # "none"
    THEN "RateMismatch"
    ELSE IF ~(Instant_index(Period_start(period), sb.sample_rate)
                >= oldest_sample_index(sb))
    THEN "WindowUnavailable:evicted"
    ELSE IF Instant_index_panic(Period_end(period), sb.sample_rate) # "none"
    THEN "RateMismatch"
    ELSE IF ~(Instant_index(Period_end(period), sb.sample_rate)
                <= sb.sample_count)
    THEN "WindowUnavailable:not_yet_produced"
    ELSE "none"

get_window(sb, period) ==
    LET start_index == Instant_index(Period_start(period), sb.sample_rate)
        end_index   == Instant_index(Period_end(period), sb.sample_rate)
    IN  View(start_index, end_index - start_index)

\* &s[a..b]: panics unless a <= b <= s.len().
SliceOk(s, a, b) == a <= b /\ b <= Len(s)

Slice(s, a, b) == SubSeq(s, a + 1, b)

\* (mutant) The naive view: one slice, cut from the older ring segment only.
get_channel_one_slice(sb, v, channel) ==
    LET first_segment == as_slices(sb.buffers[channel])[1]
        start == SampleBuffer_len(sb) - (sb.sample_count - v.start_sample_num)
        from  == Min(IF start < 0 THEN 0 ELSE start, Len(first_segment))
        to    == Min(from + v.len, Len(first_segment))
    IN  [panic            |-> "none",
         slices           |-> <<Slice(first_segment, from, to), <<>> >>,
         sample_rate      |-> sb.sample_rate,
         start_sample_num |-> v.start_sample_num,
         len              |-> v.len]

\* Period::get_channel.  The result carries `panic`: "none", or the check
\* that failed (the checked_sub, or a slice bound).
get_channel(sb, v, channel) ==
    LET segs              == as_slices(sb.buffers[channel])
        first_segment     == segs[1]
        second_segment    == segs[2]
        len_to_buffer_end == sb.sample_count - v.start_sample_num
        start             == SampleBuffer_len(sb) - len_to_buffer_end
        end               == start + v.len
        Result(ok, a, b)  ==
            [panic            |-> IF ok THEN "none" ELSE "SliceIndex",
             slices           |-> IF ok THEN <<a, b>> ELSE << <<>>, <<>> >>,
             sample_rate      |-> sb.sample_rate,
             start_sample_num |-> v.start_sample_num,
             len              |-> v.len]
    IN  IF len_to_buffer_end < 0 \/ start < 0
        THEN [Result(FALSE, <<>>, <<>>) EXCEPT !.panic = "PeriodNotInRing"]
        ELSE IF start < Len(first_segment)
        THEN IF end <= Len(first_segment)
             THEN Result(SliceOk(first_segment, start, end),
                         Slice(first_segment, start, end), <<>>)
             ELSE Result(SliceOk(second_segment, 0, end - Len(first_segment)),
                         Slice(first_segment, start, Len(first_segment)),
                         Slice(second_segment, 0, end - Len(first_segment)))
        ELSE Result(SliceOk(second_segment, start - Len(first_segment),
                            end - Len(first_segment)),
                    Slice(second_segment, start - Len(first_segment),
                          end - Len(first_segment)),
                    <<>>)

\* ChannelPeriod::into_timeseries.
into_timeseries(c) == [period |-> c, first_slice |-> TRUE, index |-> 0]

\* TimeseriesIterator::next: the iterator after the call and what the call
\* returned (some = FALSE for None).
RECURSIVE TimeseriesIterator_next(_)
TimeseriesIterator_next(t) ==
    LET slice == IF t.first_slice THEN t.period.slices[1]
                 ELSE t.period.slices[2]
    IN  IF t.index < Len(slice)
        THEN [it   |-> [t EXCEPT !.index = t.index + 1],
              some |-> TRUE,
              item |-> <<Instant_new(t.period.start_sample_num + t.index,
                                     t.period.sample_rate),
                         slice[t.index + 1]>>]
        ELSE IF t.first_slice
        THEN TimeseriesIterator_next([t EXCEPT !.first_slice = FALSE])
        ELSE [it |-> t, some |-> FALSE, item |-> <<>>]

----------------------------------------------------------------------------
(* PeriodBuffer *)

\* (mutant) A buffer whose head has been evicted is taken as it is.
PeriodBuffer_new_unchecked(buffer) == "none"

\* `assert!(buffer.sample_count <= buffer.max_len)` of PeriodBuffer::new.
PeriodBuffer_new_panic(buffer) ==
    IF buffer.sample_count <= buffer.max_len THEN "none" ELSE "HeadEvicted"

PeriodBuffer_new(buffer, period_len, period_stride) ==
    [buffer          |-> buffer,
     period_len      |-> period_len,
     period_stride   |-> period_stride,
     next_period_end |-> period_len]

\* (mutant) The sequencer's assertion left out.
window_kept_unchecked(p) == TRUE

\* The assertion PeriodBuffer::push makes after it has pushed.
window_kept(p) ==
    p.next_period_end - p.period_len >= oldest_sample_index(p.buffer)

\* PeriodBuffer::push: the buffer's own assertions fail before anything is
\* written; the sequencer's assertion fails after the frame is in the ring.
PeriodBuffer_push_panic(p, f) ==
    IF SampleBuffer_push_panic(p.buffer, f) # "none"
    THEN SampleBuffer_push_panic(p.buffer, f)
    ELSE IF ~window_kept([p EXCEPT !.buffer = SampleBuffer_push(p.buffer, f)])
    THEN "WindowLost"
    ELSE "none"

PeriodBuffer_push(p, f) ==
    IF SampleBuffer_push_panic(p.buffer, f) # "none" THEN p
    ELSE [p EXCEPT !.buffer = SampleBuffer_push(p.buffer, f)]

\* (mutant) A window is available only once a further sample has arrived.
has_next_strict(p) == p.next_period_end < p.buffer.sample_count

has_next(p) == p.next_period_end <= p.buffer.sample_count

\* (mutant) The window end advances by the window length, not the stride.
PeriodBuffer_next_by_len(p) ==
    IF has_next(p)
    THEN [pb     |-> [p EXCEPT !.next_period_end = @ + p.period_len],
          some   |-> TRUE,
          period |-> View(p.next_period_end - p.period_len, p.period_len)]
    ELSE [pb |-> p, some |-> FALSE, period |-> View(0, 0)]

\* PeriodBuffer::next: the sequencer after the call and what it returned.
PeriodBuffer_next(p) ==
    IF has_next(p)
    THEN [pb     |-> [p EXCEPT !.next_period_end = @ + p.period_stride],
          some   |-> TRUE,
          period |-> View(p.next_period_end - p.period_len, p.period_len)]
    ELSE [pb |-> p, some |-> FALSE, period |-> View(0, 0)]

----------------------------------------------------------------------------
(* FrameAccumulator *)

FrameAccumulator_new_panic(channels, sample_rate, frame_len) ==
    IF frame_len % channels = 0 THEN "none" ELSE "FrameLenNotMultiple"

FrameAccumulator_new(channels, sample_rate, frame_len) ==
    [channels    |-> channels,
     sample_rate |-> sample_rate,
     frame_len   |-> frame_len,
     samples     |-> <<>>]

with_frame_len_panic(a, new_len) ==
    IF a.samples = <<>> THEN "none" ELSE "SamplesNotEmpty"

with_frame_len(a, new_len) == [a EXCEPT !.frame_len = new_len]

push_input(a, input) == [a EXCEPT !.samples = Append(@, input)]

\* (mutant) A frame is cut as soon as the buffer is not empty.
pop_output_early(a) ==
    IF Len(a.samples) >= 1
    THEN [acc   |-> [a EXCEPT !.samples = <<>>],
          some  |-> TRUE,
          frame |-> [channels    |-> a.channels,
                     sample_rate |-> a.sample_rate,
                     samples     |-> a.samples]]
    ELSE [acc |-> a, some |-> FALSE, frame |-> <<>>]

\* FrameAccumulator::pop_output: the accumulator after the call and what the
\* call returned (some = FALSE for None).
pop_output(a) ==
    IF Len(a.samples) = a.frame_len
    THEN [acc   |-> [a EXCEPT !.samples = <<>>],
          some  |-> TRUE,
          frame |-> [channels    |-> a.channels,
                     sample_rate |-> a.sample_rate,
                     samples     |-> a.samples]]
    ELSE [acc |-> a, some |-> FALSE, frame |-> <<>>]

----------------------------------------------------------------------------
(* BufferedInput.  The input it reads from is the environment. *)

\* (mutant) The sequencer built with a stride one sample longer than the
\* window.
BufferedInput_new_buffer_gap(frame, period_len) ==
    PeriodBuffer_new(
        SampleBuffer_new(frame.channels, frame.sample_rate, 2 * period_len),
        period_len, period_len + 1)

\* The sequencer BufferedInput::new builds from the first frame's format.
BufferedInput_new_buffer(frame, period_len) ==
    PeriodBuffer_new(
        SampleBuffer_new(frame.channels, frame.sample_rate, 2 * period_len),
        period_len, period_len)

\* BufferedInput::new once the first frame has been read: the sequencer is
\* built and the frame pushed.
BufferedInput_new_panic(frame, period_len) ==
    PeriodBuffer_push_panic(BufferedInput_new_buffer(frame, period_len), frame)

BufferedInput_new(frame, period_len) ==
    PeriodBuffer_push(BufferedInput_new_buffer(frame, period_len), frame)

\* The loop condition of BufferedInput::next: another frame is read.
BufferedInput_reads_more(b) == ~has_next(b)

\* The sequencer after `self.input.read()?` in next() met an error: the `?`
\* returns before anything is pushed.
BufferedInput_next_err_skips(b) ==
    [b EXCEPT !.next_period_end = @ + b.period_stride]

BufferedInput_next_err(b) == b

----------------------------------------------------------------------------
(* Executor (src/stream/executor.rs).  Its ring and sequencer are the      *)
(* SampleBuffer and PeriodBuffer above; the two channels are bounded       *)
(* queues with a closed flag.                                              *)

\* The maximum length of the channels passing audio data amongst threads.
CHANNEL_MAX == 16

\* Message::AudioStreamClosed.
AudioStreamClosed == [kind |-> "AudioStreamClosed"]

\* Period::start_time and Period::end_time.
start_time(sb, v) == Instant_new(v.start_sample_num, sb.sample_rate)

end_time(sb, v) == Instant_new(v.start_sample_num + v.len, sb.sample_rate)

\* Period::channels: the view of every channel, in channel order.
Period_channels(sb, v) ==
    [i \in 1..sb.channels |-> get_channel(sb, v, i - 1)]

\* dsp::rms of a channel view.  The statistic is a function of the samples
\* of the window, which stand for it here.
rms(c) == c.slices[1] \o c.slices[2]

\* The message Executor::process builds for the window v.
RMSLevels(sb, v) ==
    [kind   |-> "RMSLevels",
     time   |-> start_time(sb, v),
     values |-> [i \in 1..sb.channels |-> rms(Period_channels(sb, v)[i])]]

Executor_new(channels, sample_rate) ==
    [channels    |-> channels,
     sample_rate |-> sample_rate,
     periods     |-> PeriodBuffer_new(
                         SampleBuffer_new(channels, sample_rate, sample_rate * 2),
                         sample_rate \div 10,
                         sample_rate \div 10)]

\* (mutant) The messages are returned newest first.
RECURSIVE drain_reversed(_, _, _)
drain_reversed(periods, res, turns) ==
    LET r == PeriodBuffer_next(periods) IN
        IF ~r.some
        THEN [periods |-> periods, res |-> res, ends |-> TRUE]
        ELSE IF turns = 0
        THEN [periods |-> periods, res |-> res, ends |-> FALSE]
        ELSE drain_reversed(r.pb,
                            <<RMSLevels(r.pb.buffer, r.period)>> \o res,
                            turns - 1)

\* (mutant) The call returns after the first message, leaving the other
\* windows of the frame to later calls.
drain_one(periods, res, turns) ==
    LET r == PeriodBuffer_next(periods) IN
        IF ~r.some
        THEN [periods |-> periods, res |-> res, ends |-> TRUE]
        ELSE [periods |-> r.pb,
              res |-> Append(res, RMSLevels(r.pb.buffer, r.period)),
              ends |-> TRUE]

\* The loop `while let Some(p) = self.periods.next()` of process.  A loop
\* that has not ended after `turns` turns is reported as not ending: with
\* turns = sample_count + 1 that is the case only of a sequencer whose
\* next_period_end does not advance.
RECURSIVE drain(_, _, _)
drain(periods, res, turns) ==
    LET r == PeriodBuffer_next(periods) IN
        IF ~r.some
        THEN [periods |-> periods, res |-> res, ends |-> TRUE]
        ELSE IF turns = 0
        THEN [periods |-> periods, res |-> res, ends |-> FALSE]
        ELSE drain(r.pb, Append(res, RMSLevels(r.pb.buffer, r.period)),
                   turns - 1)

\* (mutant) The sink's write error is dropped.
Executor_process_panic_sink_ignored(e, f, sink_ok) ==
    PeriodBuffer_push_panic(e.periods, f)

\* The panic of Executor::process, if any: the sink's write error is
\* expect()ed before the frame is pushed.
Executor_process_panic(e, f, sink_ok) ==
    IF ~sink_ok THEN "session.wav write error"
    ELSE PeriodBuffer_push_panic(e.periods, f)

\* Executor::process when nothing panics: the sequencer after the call, the
\* messages returned, and whether the call returns at all.
Executor_process(e, f) ==
    LET pushed_to == PeriodBuffer_push(e.periods, f)
    IN  drain(pushed_to, <<>>, pushed_to.buffer.sample_count + 1)

\* (mutant) A full channel takes one more message.
channel_full_never(q) == FALSE

\* send_blocking waits while the bounded channel is full.
channel_full(q) == Len(q) >= CHANNEL_MAX

\* (mutant) The receive fails as soon as the producer is gone, whatever is
\* still queued.
recv_fails_early(q, closed) == closed

\* recv_blocking fails once the channel is closed and empty.
recv_fails(q, closed) == closed /\ q = <<>>

\* (mutant) A failed send is skipped and the loop goes on with the next
\* message.
after_send_error_goes_on(res) ==
    [pc |-> IF Len(res) > 1 THEN "send" ELSE "recv", res |-> Tail(res),
     exit |-> "none"]

\* `if let Err(_) = self.sender.send_blocking(m) { ...; return; }`
after_send_error(res) ==
    [pc |-> "returned", res |-> res, exit |-> "UI closed"]

----------------------------------------------------------------------------
(* Pitches and their text (audio/src/pitch.rs)                             *)
(*                                                                         *)
(* A text is the sequence of its characters, each a one-character string;  *)
(* the characters U+266F (the sharp sign) and U+266D (the flat sign) are   *)
(* written "sharp" and "flat".  A Semitone is its discriminant, C = 0 to   *)
(* B = 11.                                                                 *)

I16_MIN == -32768
I16_MAX == 32767

\* The result of a failed conversion; the texts of the errors differ in
\* their first words, which is what `err` keeps.
Err(e) == [ok |-> FALSE, err |-> e]

Ok(v) == [ok |-> TRUE, value |-> v]

\* `match remain.chars().next()` of try_from_prefix: the sign a character
\* stands for.
Sign_of(ch) ==
    IF ch \in {"sharp", "#", "s"} THEN "Sharp"
    ELSE IF ch \in {"flat", "b"} THEN "Flat"
    ELSE "None"

\* (mutant) A flat is dropped: the letter's own semitone is returned.
Semitone_of_flat_dropped(letter, sign) ==
    CASE letter = "C" -> IF sign = "Sharp" THEN Ok(1) ELSE Ok(0)
      [] letter = "D" -> IF sign = "Sharp" THEN Ok(3) ELSE Ok(2)
      [] letter = "E" -> IF sign = "Sharp" THEN Err("Bad sign") ELSE Ok(4)
      [] letter = "F" -> IF sign = "Sharp" THEN Ok(6) ELSE Ok(5)
      [] letter = "G" -> IF sign = "Sharp" THEN Ok(8) ELSE Ok(7)
      [] letter = "A" -> IF sign = "Sharp" THEN Ok(10) ELSE Ok(9)
      [] letter = "B" -> IF sign = "Sharp" THEN Err("Bad sign") ELSE Ok(11)
      [] OTHER -> Err("Bad note")

\* `let semitone = match letter { ... }` of try_from_prefix.
Semitone_of(letter, sign) ==
    CASE letter = "C" ->
            (CASE sign = "Flat" -> Err("Bad sign")
               [] sign = "None" -> Ok(0)
               [] sign = "Sharp" -> Ok(1))
      [] letter = "D" ->
            (CASE sign = "Flat" -> Ok(1)
               [] sign = "None" -> Ok(2)
               [] sign = "Sharp" -> Ok(3))
      [] letter = "E" ->
            (CASE sign = "Flat" -> Ok(3)
               [] sign = "None" -> Ok(4)
               [] sign = "Sharp" -> Err("Bad sign"))
      [] letter = "F" ->
            (CASE sign = "Flat" -> Err("Bad sign")
               [] sign = "None" -> Ok(5)
               [] sign = "Sharp" -> Ok(6))
      [] letter = "G" ->
            (CASE sign = "Flat" -> Ok(6)
               [] sign = "None" -> Ok(7)
               [] sign = "Sharp" -> Ok(8))
      [] letter = "A" ->
            (CASE sign = "Flat" -> Ok(8)
               [] sign = "None" -> Ok(9)
               [] sign = "Sharp" -> Ok(10))
      [] letter = "B" ->
            (CASE sign = "Flat" -> Ok(10)
               [] sign = "None" -> Ok(11)
               [] sign = "Sharp" -> Err("Bad sign"))
      [] OTHER -> Err("Bad note")

\* Semitone::try_from_prefix: the semitone at the head of val and the text
\* that is left after it.
try_from_prefix(val) ==
    IF val = <<>> THEN Err("Empty note")
    ELSE
        LET letter == Head(val)
            after_letter == Tail(val)
            sign == IF after_letter = <<>> THEN "None"
                    ELSE Sign_of(Head(after_letter))
            remain == IF sign = "None" THEN after_letter
                      ELSE Tail(after_letter)
            semitone == Semitone_of(letter, sign)
        IN  IF semitone.ok
            THEN [ok |-> TRUE, value |-> semitone.value, remain |-> remain]
            ELSE semitone

\* impl TryFrom<&str> for Semitone.
Semitone_try_from(val) ==
    LET prefix == try_from_prefix(val)
    IN  IF ~prefix.ok THEN prefix
        ELSE IF prefix.remain = <<>> THEN Ok(prefix.value)
        ELSE Err("Trailing garbage")

\* (mutant) Every black key and every white key alike is written as the
\* sharp of the letter below it.
Semitone_fmt_all_sharps(s) ==
    CASE s = 0 -> <<"B", "sharp">>
      [] s = 1 -> <<"C", "sharp">>
      [] s = 2 -> <<"D">>
      [] s = 3 -> <<"D", "sharp">>
      [] s = 4 -> <<"E">>
      [] s = 5 -> <<"E", "sharp">>
      [] s = 6 -> <<"F", "sharp">>
      [] s = 7 -> <<"G">>
      [] s = 8 -> <<"G", "sharp">>
      [] s = 9 -> <<"A">>
      [] s = 10 -> <<"A", "sharp">>
      [] s = 11 -> <<"B">>

\* impl Display for Semitone.
Semitone_fmt(s) ==
    CASE s = 0 -> <<"C">>
      [] s = 1 -> <<"C", "sharp">>
      [] s = 2 -> <<"D">>
      [] s = 3 -> <<"D", "sharp">>
      [] s = 4 -> <<"E">>
      [] s = 5 -> <<"F">>
      [] s = 6 -> <<"F", "sharp">>
      [] s = 7 -> <<"G">>
      [] s = 8 -> <<"G", "sharp">>
      [] s = 9 -> <<"A">>
      [] s = 10 -> <<"A", "sharp">>
      [] s = 11 -> <<"B">>

\* The decimal digits.
DigitChars == <<"0", "1", "2", "3", "4", "5", "6", "7", "8", "9">>

IsDigit(ch) == \E d \in 1..10 : DigitChars[d] = ch

DigitValue(ch) == (CHOOSE d \in 1..10 : DigitChars[d] = ch) - 1

\* The number a sequence of digits writes.
RECURSIVE digits_value(_)
digits_value(s) ==
    IF s = <<>> THEN 0
    ELSE 10 * digits_value(SubSeq(s, 1, Len(s) - 1)) + DigitValue(s[Len(s)])

\* str::parse::<i16>: an optional sign, then one digit or more and nothing
\* else, the number being one an i16 holds.
parse_i16(s) ==
    IF s = <<>> THEN Err("empty")
    ELSE
        LET digits == IF Head(s) \in {"+", "-"} THEN Tail(s) ELSE s
            number == IF Head(s) = "-" THEN 0 - digits_value(digits)
                      ELSE digits_value(digits)
        IN  IF digits = <<>> \/ \E i \in 1..Len(digits) : ~IsDigit(digits[i])
            THEN Err("invalid digit")
            ELSE IF number < I16_MIN \/ number > I16_MAX
            THEN Err("overflow")
            ELSE Ok(number)

\* Pitch::new.
Pitch_new(semitone, octave) ==
    [octave |-> octave, semitone |-> semitone, cents |-> 0]

\* Pitch::new_with_cents.  (The cents of the model are whole numbers.)
Pitch_new_with_cents(semitone, octave, cents) ==
    [octave |-> octave, semitone |-> semitone, cents |-> cents]

\* impl TryFrom<&str> for Pitch: the semitone at the head, and all that is
\* left is handed to parse::<i16>.
Pitch_try_from(val) ==
    LET prefix == try_from_prefix(val)
    IN  IF ~prefix.ok THEN prefix
        ELSE LET octave == parse_i16(prefix.remain)
             IN  IF octave.ok
                 THEN Ok(Pitch_new(prefix.value, octave.value))
                 ELSE Err("Bad octave")

\* The digits of a natural number.
RECURSIVE fmt_digits(_)
fmt_digits(n) ==
    IF n < 10 THEN <<DigitChars[n + 1]>>
    ELSE fmt_digits(n \div 10) \o <<DigitChars[(n % 10) + 1]>>

\* "{}" of an i16.
fmt_i16(n) == IF n < 0 THEN <<"-">> \o fmt_digits(0 - n) ELSE fmt_digits(n)

\* "{:+}" of a whole number of cents: the sign is always written.
fmt_signed(n) ==
    IF n < 0 THEN <<"-">> \o fmt_digits(0 - n) ELSE <<"+">> \o fmt_digits(n)

\* impl Display for Pitch.
Pitch_fmt(p) ==
    IF p.cents = 0
    THEN Semitone_fmt(p.semitone) \o fmt_i16(p.octave)
    ELSE Semitone_fmt(p.semitone) \o fmt_i16(p.octave) \o fmt_signed(p.cents)

\* Tuning::A440, the only Tuning there is: its reference pitch.  (Its
\* reference frequency does not enter the count of semitones.)
A440 == [ref_pitch |-> Pitch_new(9, 4)]

\* An i16 operation whose result does not fit: the build with overflow
\* checks panics, the build without them wraps.
wrap_i16(x) == ((x - I16_MIN) % 65536) + I16_MIN

i16_op(x, build) ==
    IF x >= I16_MIN /\ x <= I16_MAX THEN Ok(x)
    ELSE IF build = "debug" THEN Err("attempt to compute with overflow")
    ELSE Ok(wrap_i16(x))

\* i32::div_euclid for a positive divisor: the quotient is rounded down.
div_euclid(a, b) == a \div b

\* i32::rem_euclid for a positive divisor: the remainder is in 0..b-1.
rem_euclid(a, b) == a % b

\* Tuning::freq_from, up to the count of semitones from the reference that
\* the frequency is computed from (ref_freq * 2^(semitones / 12)): a pitch
\* of zero cents gives a whole count, which stands for its frequency.
freq_from(tuning, pitch, build) ==
    LET octaves == i16_op(pitch.octave - tuning.ref_pitch.octave, build)
    IN  IF ~octaves.ok THEN octaves
        ELSE Ok(pitch.semitone + octaves.value * 12
                    - tuning.ref_pitch.semitone)

\* Tuning::pitch_from of the frequency a whole count of semitones from the
\* reference stands for: log2(freq / ref_freq) * 12 is that count, and
\* round() leaves it as it is.
pitch_from(tuning, count, build) ==
    LET semitones == count + tuning.ref_pitch.semitone
        octaves == div_euclid(semitones, 12)
        semitone == rem_euclid(semitones, 12)
        octave == i16_op(wrap_i16(octaves) + tuning.ref_pitch.octave, build)
    IN  IF ~octave.ok THEN octave
        ELSE Ok(Pitch_new(semitone, octave.value))

----------------------------------------------------------------------------
(* Numbers of the width of u64 and usize.  The conversion of a Duration to  *)
(* wall-clock time multiplies by 10^9, so its operands are written out in   *)
(* base 10^4: a number is the sequence of its four-digit groups, the most   *)
(* significant first and not zero (zero is the empty sequence).             *)

WIDE_BASE == 10000

RECURSIVE Wide_trim(_)
Wide_trim(a) == IF a # <<>> /\ a[1] = 0 THEN Wide_trim(Tail(a)) ELSE a

\* The groups of a small natural number.
RECURSIVE Wide(_)
Wide(n) ==
    IF n = 0 THEN <<>>
    ELSE Append(Wide(n \div WIDE_BASE), n % WIDE_BASE)

\* a, lengthened to n groups by leading zeros.  (Appending the empty
\* sequence makes an explicit sequence of the function.)
Wide_pad(a, n) ==
    [i \in 1..n |-> IF i <= n - Len(a) THEN 0 ELSE a[i - (n - Len(a))]]
        \o <<>>

Wide_lt(a, b) ==
    \/ Len(a) < Len(b)
    \/ /\ Len(a) = Len(b)
       /\ \E i \in 1..Len(a) :
             /\ a[i] < b[i]
             /\ \A j \in 1..(i - 1) : a[j] = b[j]

Wide_le(a, b) == a = b \/ Wide_lt(a, b)

\* The groups of x + y from group i leftwards, x and y having equally many
\* groups, with the carry into group i and the groups to the right of it.
RECURSIVE Wide_add_from(_, _, _, _, _)
Wide_add_from(x, y, i, carry, out) ==
    IF i = 0 THEN Wide_trim(<<carry>> \o out)
    ELSE Wide_add_from(x, y, i - 1, (x[i] + y[i] + carry) \div WIDE_BASE,
                       <<(x[i] + y[i] + carry) % WIDE_BASE>> \o out)

Wide_add(a, b) ==
    LET n == IF Len(a) > Len(b) THEN Len(a) ELSE Len(b)
    IN  Wide_add_from(Wide_pad(a, n), Wide_pad(b, n), n, 0, <<>>)

RECURSIVE Wide_sub_from(_, _, _, _, _)
Wide_sub_from(x, y, i, borrow, out) ==
    IF i = 0 THEN Wide_trim(out)
    ELSE Wide_sub_from(x, y, i - 1,
                       IF x[i] - y[i] - borrow < 0 THEN 1 ELSE 0,
                       <<(x[i] - y[i] - borrow + WIDE_BASE) % WIDE_BASE>>
                           \o out)

\* a - b, for a >= b.
Wide_sub(a, b) == Wide_sub_from(a, Wide_pad(b, Len(a)), Len(a), 0, <<>>)

RECURSIVE Wide_mul_small_from(_, _, _, _, _)
Wide_mul_small_from(x, k, i, carry, out) ==
    IF i = 0 THEN Wide_trim(<<carry>> \o out)
    ELSE Wide_mul_small_from(x, k, i - 1, (x[i] * k + carry) \div WIDE_BASE,
                             <<(x[i] * k + carry) % WIDE_BASE>> \o out)

\* a * k, for k less than the base.
Wide_mul_small(a, k) == Wide_mul_small_from(a, k, Len(a), 0, <<>>)

\* a * b, group by group of b.
RECURSIVE Wide_mul_from(_, _, _, _)
Wide_mul_from(a, b, i, acc) ==
    IF i > Len(b) THEN acc
    ELSE Wide_mul_from(a, b, i + 1,
                       Wide_add(Wide_trim(acc \o <<0>>),
                                Wide_mul_small(a, b[i])))

Wide_mul(a, b) == Wide_mul_from(a, b, 1, <<>>)

\* The greatest q of the form hundreds + 0..99 with b * q <= cur.
Wide_quot_step(cur, b, hundreds) ==
    CHOOSE q \in {hundreds + d : d \in 0..99} :
        /\ Wide_le(Wide_mul_small(b, q), cur)
        /\ q = hundreds + 99 \/ ~Wide_le(Wide_mul_small(b, q + 1), cur)

\* The greatest group q with b * q <= cur, for cur < b * 10^4: its
\* hundreds, then its units.
Wide_quot(cur, b) ==
    LET h == CHOOSE h \in 0..99 :
                 /\ Wide_le(Wide_mul_small(b, 100 * h), cur)
                 /\ h = 99 \/ ~Wide_le(Wide_mul_small(b, 100 * (h + 1)), cur)
    IN  Wide_quot_step(cur, b, 100 * h)

\* Long division of a by b # 0, group by group of a.
RECURSIVE Wide_div_from(_, _, _, _, _)
Wide_div_from(a, b, i, quot, rem) ==
    IF i > Len(a) THEN [quot |-> Wide_trim(quot), rem |-> rem]
    ELSE LET cur == Wide_trim(Append(rem, a[i]))
             q == Wide_quot(cur, b)
         IN  Wide_div_from(a, b, i + 1, Append(quot, q),
                           Wide_sub(cur, Wide_mul_small(b, q)))

Wide_div(a, b) == Wide_div_from(a, b, 1, <<>>, <<>>).quot

Wide_rem(a, b) == Wide_div_from(a, b, 1, <<>>, <<>>).rem

\* 2^32 and 2^64: the first numbers a u32 and a u64 do not hold.
U32_LIMIT == <<42, 9496, 7296>>

U64_LIMIT == <<1844, 6744, 737, 955, 1616>>

\* (mutant) usize is 32 bits wide.
usize_limit_32 == U32_LIMIT

\* usize is 64 bits wide.
usize_limit == U64_LIMIT

\* a * k in usize: a product that does not fit panics in a build with
\* overflow checks and wraps in one without.
usize_mul(a, k, build) ==
    LET product == Wide_mul_small(a, k)
    IN  IF Wide_lt(product, usize_limit) THEN Ok(product)
        ELSE IF build = "debug" THEN Err("attempt to multiply with overflow")
        ELSE Ok(Wide_rem(product, usize_limit))

\* time::Duration::new(secs, nanos): whole seconds in nanos are carried
\* over to secs.
time_Duration_new(secs, nanos) ==
    [secs  |-> Wide_add(secs, Wide_div(nanos, Wide(1000000000))),
     nanos |-> Wide_rem(nanos, Wide(1000000000))]

\* impl From<Duration> for time::Duration.
time_Duration_from(stream_dur, build) ==
    IF stream_dur.sample_rate = <<>> THEN Err("attempt to divide by zero")
    ELSE
        LET secs == Wide_div(stream_dur.sample_count, stream_dur.sample_rate)
            remain == Wide_rem(stream_dur.sample_count, stream_dur.sample_rate)
            thousands == usize_mul(remain, 1000, build)
            millions == IF thousands.ok
                        THEN usize_mul(thousands.value, 1000, build)
                        ELSE thousands
            billions == IF millions.ok
                        THEN usize_mul(millions.value, 1000, build)
                        ELSE millions
        IN  IF ~billions.ok THEN billions
            ELSE LET nanos == Wide_div(billions.value, stream_dur.sample_rate)
                 IN  Ok(time_Duration_new(secs, Wide_rem(nanos, U32_LIMIT)))

----------------------------------------------------------------------------
(* The state machine of one buffer's life *)

VARIABLES
    stage,   \* "SampleBuffer": the buffer stands alone; "PeriodBuffer": it
             \* has been moved into a PeriodBuffer
    pb,      \* the PeriodBuffer; while stage = "SampleBuffer" only pb.buffer
             \* exists
    view,    \* the live buffer::Period, if any, and the call it came from
    cp,      \* the live ChannelPeriod, if any, and its channel
    ts,      \* the live TimeseriesIterator, if any, what it has yielded so
             \* far and whether it has returned None
    pushed,  \* history: the flat samples of every frame accepted so far
    nwin,    \* history: the number of windows next() has returned
    op,      \* the last call made
    arg,     \* the window descriptor the last call was given, if it was
             \* get_window
    panic    \* "none", or the assertion that failed in the last call

buffer_vars == <<stage, pb, view, cp, ts, pushed, nwin, op, arg, panic>>

VARIABLES
    acc,       \* the FrameAccumulator
    fed,       \* history: the scalars given to push_input
    emitted,   \* history: the frames pop_output has returned
    acc_op,    \* the last call made on the accumulator, with its result
    acc_prev,  \* the call made before that one
    in_order,  \* history: every push_input was followed by a pop_output, and
               \* every pop_output followed a push_input or a pop_output
    nreconf,   \* history: the number of with_frame_len calls
    acc_panic  \* "none", or the assertion that failed in the last call

accumulator_vars ==
    <<acc, fed, emitted, acc_op, acc_prev, in_order, nreconf, acc_panic>>

VARIABLES
    bi,        \* the BufferedInput's sequencer (its `buffer` field)
    bi_period, \* the period_len BufferedInput::new is called with
    bi_pc,     \* "start": before new; "idle": between calls; "next": inside
               \* the loop of next(); "done": the object is gone
    bi_ret,    \* what the last call returned
    bi_view,   \* the live window returned by next(), if any
    bi_read,   \* history: the flat samples of every frame read
    bi_frames, \* history: the number of frames read
    bi_win,    \* history: the number of windows next() has returned
    bi_err_frames, \* history: the number of frames that had been read when
               \* read() last returned an error, -1 if it never did
    bi_panic   \* "none", or the assertion that failed

input_vars ==
    <<bi, bi_period, bi_pc, bi_ret, bi_view, bi_read, bi_frames, bi_win,
      bi_err_frames, bi_panic>>

VARIABLES
    ex,         \* the Executor
    ex_pc,      \* where its thread is: "recv": in recv_blocking; "send": in
                \* send_blocking of a message of the current frame;
                \* "closing": in send_blocking of AudioStreamClosed;
                \* "process": in a call of process that does not return;
                \* "returned": run has returned; "panicked": it unwound
    ex_res,     \* the messages of the current frame that are still to send
    ex_exit,    \* why run returned
    ex_panic,   \* "none", or the panic that ended the thread
    frames,     \* the upstream channel: the frames in flight
    frames_closed, \* the producer has dropped its end
    outbound,   \* the outbound channel: the messages in flight
    ui_open,    \* the consumer still holds its end
    produced,   \* history: the flat samples of every frame the producer sent
    taken,      \* history: the flat samples of every frame run received
    computed,   \* history: every message process returned, in order
    sent,       \* history: every message a send_blocking call delivered to
                \* the channel
    attempts,   \* history: the number of send_blocking(AudioStreamClosed)
                \* calls that have completed
    delivered,  \* history: every message the consumer received
    sink        \* the recording sink (self.writer): the flat samples written
                \* to it, and whether a write to it has failed

executor_vars ==
    <<ex, ex_pc, ex_res, ex_exit, ex_panic, frames, frames_closed, outbound,
      ui_open, produced, taken, computed, sent, attempts, delivered, sink>>

VARIABLES
    tm_a,     \* the left operand of the time operation
    tm_b,     \* its right operand
    tm_op,    \* the operation applied to them, "none" before it is
    tm_out,   \* what it returned
    tm_panic  \* "none", or the assertion that failed in it

time_vars == <<tm_a, tm_b, tm_op, tm_out, tm_panic>>

VARIABLES
    pt_val,   \* the Semitone or the Pitch the conversions start from, if
              \* they start from one
    pt_text,  \* the text that is parsed: given, or written by to_string
    pt_op,    \* the last conversion made, "start" before the first
    pt_res,   \* what it returned
    pt_build  \* "debug": the build checks integer overflow; "release": it
              \* does not

pitch_vars == <<pt_val, pt_text, pt_op, pt_res, pt_build>>

vars ==
    <<buffer_vars, accumulator_vars, input_vars, executor_vars, time_vars,
      pitch_vars>>

\* An object that is not part of the run.
Absent == [exists |-> FALSE]

AccumulatorAbsent ==
    /\ acc = Absent /\ fed = <<>> /\ emitted = <<>> /\ acc_op = "absent"
    /\ acc_prev = "absent" /\ in_order = TRUE /\ nreconf = 0
    /\ acc_panic = "none"

InputAbsent ==
    /\ bi = Absent /\ bi_period = 0 /\ bi_pc = "absent" /\ bi_ret = "absent"
    /\ bi_view = [valid |-> FALSE] /\ bi_read = <<>> /\ bi_frames = 0
    /\ bi_win = 0 /\ bi_err_frames = -1 /\ bi_panic = "none"

BufferAbsent ==
    /\ stage = "absent" /\ pb = Absent /\ view = [valid |-> FALSE]
    /\ cp = [valid |-> FALSE] /\ ts = [valid |-> FALSE] /\ pushed = <<>>
    /\ nwin = 0 /\ op = "absent" /\ arg = <<>> /\ panic = "none"

ExecutorAbsent ==
    /\ ex = Absent /\ ex_pc = "absent" /\ ex_res = <<>> /\ ex_exit = "none"
    /\ ex_panic = "none" /\ frames = <<>> /\ frames_closed = FALSE
    /\ outbound = <<>> /\ ui_open = FALSE /\ produced = <<>> /\ taken = <<>>
    /\ computed = <<>> /\ sent = <<>> /\ attempts = 0 /\ delivered = <<>>
    /\ sink = Absent

TimeAbsent ==
    /\ tm_a = Absent /\ tm_b = Absent /\ tm_op = "absent"
    /\ tm_out = "absent" /\ tm_panic = "none"

PitchAbsent ==
    /\ pt_val = Absent /\ pt_text = <<>> /\ pt_op = "absent"
    /\ pt_res = Absent /\ pt_build = "absent"

\* The steps of a buffer's life leave the other objects alone.
BufferOnly ==
    UNCHANGED <<accumulator_vars, input_vars, executor_vars, time_vars,
                pitch_vars>>

NoView == [valid |-> FALSE]
NoChannelPeriod == [valid |-> FALSE]
NoTimeseries == [valid |-> FALSE]

\* The frames a caller may hand to push: any format, any flat length, the
\* samples being the next ones of the tagged stream.
Frames ==
    {[channels |-> c, sample_rate |-> r, samples |-> Tags(Len(pushed), n)] :
        c \in 1..MaxChannels, r \in Rates, n \in 0..MaxFrame}

\* The window descriptors a caller may hand to get_window.
Periods ==
    {Period_new(s, n, r) : s \in 0..(MaxCount + 1), n \in 0..(MaxCap + 1),
                           r \in Rates}

Init ==
    /\ stage = "SampleBuffer"
    /\ \E c \in 1..MaxChannels, r \in Rates, m \in 1..MaxCap :
          pb = [buffer          |-> SampleBuffer_new(c, r, m),
                period_len      |-> 0,
                period_stride   |-> 0,
                next_period_end |-> 0]
    /\ view = NoView
    /\ cp = NoChannelPeriod
    /\ ts = NoTimeseries
    /\ pushed = <<>>
    /\ nwin = 0
    /\ op = "new"
    /\ arg = <<>>
    /\ panic = "none"
    /\ AccumulatorAbsent
    /\ InputAbsent
    /\ ExecutorAbsent
    /\ TimeAbsent
    /\ PitchAbsent

DropViews ==
    /\ view' = NoView
    /\ cp' = NoChannelPeriod
    /\ ts' = NoTimeseries

\* SampleBuffer::push(f) on the buffer standing alone.
Push(f) ==
    /\ stage = "SampleBuffer" /\ panic = "none"
    /\ op' = "SampleBuffer::push"
    /\ panic' = SampleBuffer_push_panic(pb.buffer, f)
    /\ IF SampleBuffer_push_panic(pb.buffer, f) = "none"
       THEN /\ pb.buffer.sample_count + (Len(f.samples) \div f.channels)
                 <= MaxCount
            /\ pb' = [pb EXCEPT !.buffer = SampleBuffer_push(pb.buffer, f)]
            /\ pushed' = pushed \o f.samples
       ELSE UNCHANGED <<pb, pushed>>
    /\ DropViews
    /\ UNCHANGED <<stage, nwin>>
    /\ arg' = <<>>
    /\ BufferOnly

\* SampleBuffer::get_window(period).
GetWindow(period) ==
    /\ stage = "SampleBuffer" /\ panic = "none"
    /\ op' = "get_window"
    /\ panic' = get_window_panic(pb.buffer, period)
    /\ view' = IF get_window_panic(pb.buffer, period) = "none"
               THEN [valid |-> TRUE, from |-> "get_window",
                     period |-> get_window(pb.buffer, period)]
               ELSE NoView
    /\ cp' = NoChannelPeriod
    /\ ts' = NoTimeseries
    /\ UNCHANGED <<stage, pb, pushed, nwin>>
    /\ arg' = period
    /\ BufferOnly

\* PeriodBuffer::new(buffer, period_len, period_stride): the buffer moves
\* into the sequencer.
NewPeriodBuffer(period_len, period_stride) ==
    /\ stage = "SampleBuffer" /\ panic = "none"
    /\ op' = "PeriodBuffer::new"
    /\ panic' = PeriodBuffer_new_panic(pb.buffer)
    /\ IF PeriodBuffer_new_panic(pb.buffer) = "none"
       THEN /\ pb' = PeriodBuffer_new(pb.buffer, period_len, period_stride)
            /\ stage' = "PeriodBuffer"
       ELSE UNCHANGED <<pb, stage>>
    /\ DropViews
    /\ UNCHANGED <<pushed, nwin>>
    /\ arg' = <<>>
    /\ BufferOnly

\* PeriodBuffer::push(f).
PushPeriods(f) ==
    /\ stage = "PeriodBuffer" /\ panic = "none"
    /\ op' = "PeriodBuffer::push"
    /\ panic' = PeriodBuffer_push_panic(pb, f)
    /\ pb' = PeriodBuffer_push(pb, f)
    /\ IF SampleBuffer_push_panic(pb.buffer, f) = "none"
       THEN /\ pb.buffer.sample_count + (Len(f.samples) \div f.channels)
                 <= MaxCount
            /\ pushed' = pushed \o f.samples
       ELSE UNCHANGED pushed
    /\ DropViews
    /\ UNCHANGED <<stage, nwin>>
    /\ arg' = <<>>
    /\ BufferOnly

\* PeriodBuffer::next().
NextPeriod ==
    /\ stage = "PeriodBuffer" /\ panic = "none"
    /\ op' = "next"
    /\ panic' = "none"
    /\ LET r == PeriodBuffer_next(pb) IN
          /\ pb' = r.pb
          /\ IF r.some
             THEN /\ nwin < MaxWindows
                  /\ nwin' = nwin + 1
                  /\ view' = [valid |-> TRUE, from |-> "next",
                              period |-> r.period]
             ELSE /\ nwin' = nwin
                  /\ view' = NoView
    /\ cp' = NoChannelPeriod
    /\ ts' = NoTimeseries
    /\ UNCHANGED <<stage, pushed>>
    /\ arg' = <<>>
    /\ BufferOnly

\* Period::get_channel(channel) on the live view.
GetChannel(channel) ==
    /\ panic = "none" /\ view.valid
    /\ op' = "get_channel"
    /\ LET c == get_channel(pb.buffer, view.period, channel) IN
          /\ panic' = c.panic
          /\ cp' = IF c.panic = "none"
                   THEN [valid |-> TRUE, channel |-> channel, period |-> c]
                   ELSE NoChannelPeriod
    /\ ts' = NoTimeseries
    /\ UNCHANGED <<stage, pb, view, pushed, nwin>>
    /\ arg' = <<>>
    /\ BufferOnly

\* ChannelPeriod::into_timeseries() on the live channel view, which moves
\* into the iterator.
IntoTimeseries ==
    /\ panic = "none" /\ cp.valid
    /\ op' = "into_timeseries"
    /\ ts' = [valid |-> TRUE, channel |-> cp.channel,
              it |-> into_timeseries(cp.period), out |-> <<>>,
              ended |-> FALSE]
    /\ cp' = NoChannelPeriod
    /\ UNCHANGED <<stage, pb, view, pushed, nwin, panic>>
    /\ arg' = <<>>
    /\ BufferOnly

\* TimeseriesIterator::next() on the live iterator.
IterNext ==
    /\ panic = "none" /\ ts.valid
    /\ op' = "TimeseriesIterator::next"
    /\ LET r == TimeseriesIterator_next(ts.it) IN
          ts' = [ts EXCEPT !.it = r.it,
                           !.out = IF r.some THEN Append(@, r.item) ELSE @,
                           !.ended = ~r.some]
    /\ UNCHANGED <<stage, pb, view, cp, pushed, nwin, panic>>
    /\ arg' = <<>>
    /\ BufferOnly

Next ==
    \/ \E f \in Frames : Push(f)
    \/ \E period \in Periods : GetWindow(period)
    \/ \E l \in 0..MaxPeriod, s \in 0..MaxStride : NewPeriodBuffer(l, s)
    \/ \E f \in Frames : PushPeriods(f)
    \/ NextPeriod
    \/ \E ch \in 0..(pb.buffer.channels - 1) : GetChannel(ch)
    \/ IntoTimeseries
    \/ IterNext

Spec == Init /\ [][Next]_vars

----------------------------------------------------------------------------
(* The state machine of a SampleBuffer of any capacity, 0 included, that   *)
(* is filled by push and by push_some_mono.                                *)

RingInit ==
    /\ stage = "SampleBuffer"
    /\ \E c \in 1..MaxChannels, r \in Rates, m \in 0..MaxCap :
          pb = [buffer          |-> SampleBuffer_new(c, r, m),
                period_len      |-> 0,
                period_stride   |-> 0,
                next_period_end |-> 0]
    /\ view = NoView
    /\ cp = NoChannelPeriod
    /\ ts = NoTimeseries
    /\ pushed = <<>>
    /\ nwin = 0
    /\ op = "new"
    /\ arg = <<>>
    /\ panic = "none"
    /\ AccumulatorAbsent
    /\ InputAbsent
    /\ ExecutorAbsent
    /\ TimeAbsent
    /\ PitchAbsent

\* SampleBuffer::push_some_mono(samples, max_count), the iterator having n
\* more samples of the tagged stream.
PushSomeMono(n, max_count) ==
    /\ stage = "SampleBuffer" /\ panic = "none"
    /\ op' = "push_some_mono"
    /\ panic' = push_some_mono_panic(pb.buffer)
    /\ IF push_some_mono_panic(pb.buffer) = "none"
       THEN LET r == push_some_mono(pb.buffer, Tags(Len(pushed), n),
                                    max_count)
            IN  /\ pb.buffer.sample_count + r.pushed <= MaxCount
                /\ pb' = [pb EXCEPT !.buffer = r.sb]
                /\ pushed' = pushed \o Tags(Len(pushed), r.pushed)
       ELSE UNCHANGED <<pb, pushed>>
    /\ DropViews
    /\ UNCHANGED <<stage, nwin>>
    /\ arg' = <<>>
    /\ BufferOnly

RingNext ==
    \/ \E f \in Frames : Push(f)
    \/ \E n \in 0..MaxFrame, max_count \in 0..MaxFrame :
           PushSomeMono(n, max_count)

SpecRing == RingInit /\ [][RingNext]_vars

----------------------------------------------------------------------------
(* The state machine of a FrameAccumulator: the scalars of the input       *)
(* stream, tagged 1, 2, 3, ..., are pushed one at a time and frames are    *)
(* popped, in any order of calls.                                          *)

AccumulatorOnly ==
    UNCHANGED <<buffer_vars, input_vars, executor_vars, time_vars,
                pitch_vars>>

\* FrameAccumulator::new(channels, sample_rate, frame_len).
AccumulatorInit ==
    /\ \E c \in 1..MaxChannels, r \in Rates, n \in 0..MaxFrame :
          /\ acc_panic = FrameAccumulator_new_panic(c, r, n)
          /\ acc = IF FrameAccumulator_new_panic(c, r, n) = "none"
                   THEN FrameAccumulator_new(c, r, n)
                   ELSE Absent
    /\ fed = <<>>
    /\ emitted = <<>>
    /\ acc_op = "new"
    /\ acc_prev = "none"
    /\ in_order = TRUE
    /\ nreconf = 0
    /\ BufferAbsent
    /\ InputAbsent
    /\ ExecutorAbsent
    /\ TimeAbsent
    /\ PitchAbsent

\* with_frame_len(new_len).
WithFrameLen(new_len) ==
    /\ acc_panic = "none"
    /\ nreconf < MaxReconfigure
    /\ nreconf' = nreconf + 1
    /\ acc_op' = "with_frame_len"
    /\ acc_prev' = acc_op
    /\ acc_panic' = with_frame_len_panic(acc, new_len)
    /\ acc' = IF with_frame_len_panic(acc, new_len) = "none"
              THEN with_frame_len(acc, new_len)
              ELSE acc
    /\ UNCHANGED <<fed, emitted, in_order>>
    /\ AccumulatorOnly

\* push_input(input), input being the next scalar of the stream.
PushInput ==
    /\ acc_panic = "none"
    /\ Len(fed) < MaxScalars
    /\ acc_op' = "push_input"
    /\ acc_prev' = acc_op
    /\ acc' = push_input(acc, Len(fed) + 1)
    /\ fed' = Append(fed, Len(fed) + 1)
    /\ in_order' = (in_order /\ acc_op # "push_input")
    /\ UNCHANGED <<emitted, nreconf, acc_panic>>
    /\ AccumulatorOnly

\* pop_output().
PopOutput ==
    /\ acc_panic = "none"
    /\ Len(emitted) < MaxScalars
    /\ LET r == pop_output(acc) IN
          /\ acc' = r.acc
          /\ emitted' = IF r.some THEN Append(emitted, r.frame) ELSE emitted
          /\ acc_op' = IF r.some THEN "pop_output:Some" ELSE "pop_output:None"
    /\ acc_prev' = acc_op
    /\ in_order' = (in_order /\ acc_op \in {"push_input", "pop_output:Some",
                                             "pop_output:None"})
    /\ UNCHANGED <<fed, nreconf, acc_panic>>
    /\ AccumulatorOnly

AccumulatorNext ==
    \/ \E n \in 0..MaxFrame : WithFrameLen(n)
    \/ PushInput
    \/ PopOutput

SpecAccumulator == AccumulatorInit /\ [][AccumulatorNext]_vars

----------------------------------------------------------------------------
(* The state machine of a BufferedInput.  Input::read() blocks, so a call  *)
(* of next() is a sequence of steps: one per frame read, and the return.   *)
(* The input yields frames of any format and length, the samples being the *)
(* next ones of the tagged stream, or an error.                            *)

InputOnly ==
    UNCHANGED <<buffer_vars, accumulator_vars, executor_vars, time_vars,
                pitch_vars>>

InputFrames ==
    {[channels |-> c, sample_rate |-> r, samples |-> Tags(Len(bi_read), n)] :
        c \in 1..MaxChannels, r \in Rates, n \in 0..MaxFrame}

InputInit ==
    /\ bi = Absent
    /\ bi_period \in 0..MaxPeriod
    /\ bi_pc = "start"
    /\ bi_ret = "none"
    /\ bi_view = NoView
    /\ bi_read = <<>>
    /\ bi_frames = 0
    /\ bi_win = 0
    /\ bi_err_frames = -1
    /\ bi_panic = "none"
    /\ BufferAbsent
    /\ AccumulatorAbsent
    /\ ExecutorAbsent
    /\ TimeAbsent
    /\ PitchAbsent

\* BufferedInput::new(input, period_len), read() returning the frame f.
NewBufferedInput(f) ==
    /\ bi_pc = "start"
    /\ bi_read' = bi_read \o f.samples
    /\ bi_frames' = bi_frames + 1
    /\ bi_panic' = BufferedInput_new_panic(f, bi_period)
    /\ bi' = BufferedInput_new(f, bi_period)
    /\ IF BufferedInput_new_panic(f, bi_period) = "none"
       THEN bi_pc' = "idle" /\ bi_ret' = "new:Ok"
       ELSE bi_pc' = "done" /\ bi_ret' = "new:panic"
    /\ UNCHANGED <<bi_period, bi_view, bi_win, bi_err_frames>>
    /\ InputOnly

\* BufferedInput::new(input, period_len), read() returning an error.
NewBufferedInputErr ==
    /\ bi_pc = "start"
    /\ bi_pc' = "done"
    /\ bi_ret' = "new:Err"
    /\ bi_err_frames' = bi_frames
    /\ UNCHANGED <<bi, bi_period, bi_view, bi_read, bi_frames, bi_win, bi_panic>>
    /\ InputOnly

\* next() is called: the previous window's borrow has ended.
CallNext ==
    /\ bi_pc = "idle"
    /\ bi_pc' = "next"
    /\ bi_ret' = "none"
    /\ bi_view' = NoView
    /\ UNCHANGED <<bi, bi_period, bi_read, bi_frames, bi_win, bi_err_frames,
                   bi_panic>>
    /\ InputOnly

\* One turn of the loop of next(): read() returns the frame f, which is
\* pushed.
ReadFrame(f) ==
    /\ bi_pc = "next"
    /\ BufferedInput_reads_more(bi)
    /\ bi_frames < MaxReads
    /\ bi.buffer.sample_count + (Len(f.samples) \div f.channels) <= MaxCount
    /\ bi_read' = bi_read \o f.samples
    /\ bi_frames' = bi_frames + 1
    /\ bi_panic' = PeriodBuffer_push_panic(bi, f)
    /\ bi' = PeriodBuffer_push(bi, f)
    /\ IF PeriodBuffer_push_panic(bi, f) = "none"
       THEN UNCHANGED <<bi_pc, bi_ret>>
       ELSE bi_pc' = "done" /\ bi_ret' = "next:panic"
    /\ UNCHANGED <<bi_period, bi_view, bi_win, bi_err_frames>>
    /\ InputOnly

\* One turn of the loop of next(): read() returns an error, which next()
\* returns.
ReadErr ==
    /\ bi_pc = "next"
    /\ BufferedInput_reads_more(bi)
    /\ bi_pc' = "idle"
    /\ bi_ret' = "next:Err"
    /\ bi' = BufferedInput_next_err(bi)
    /\ bi_err_frames' = bi_frames
    /\ UNCHANGED <<bi_period, bi_view, bi_read, bi_frames, bi_win, bi_panic>>
    /\ InputOnly

\* The loop of next() has ended: self.buffer.next().unwrap() is returned.
ReturnWindow ==
    /\ bi_pc = "next"
    /\ ~BufferedInput_reads_more(bi)
    /\ bi_win < MaxWindows
    /\ LET r == PeriodBuffer_next(bi) IN
          /\ bi' = r.pb
          /\ IF r.some
             THEN /\ bi_view' = [valid |-> TRUE, period |-> r.period]
                  /\ bi_win' = bi_win + 1
                  /\ bi_pc' = "idle"
                  /\ bi_ret' = "next:Ok"
                  /\ bi_panic' = "none"
             ELSE /\ bi_view' = NoView
                  /\ bi_win' = bi_win
                  /\ bi_pc' = "done"
                  /\ bi_ret' = "next:panic"
                  /\ bi_panic' = "UnwrapNone"
    /\ UNCHANGED <<bi_period, bi_read, bi_frames, bi_err_frames>>
    /\ InputOnly

InputNext ==
    \/ \E f \in InputFrames : NewBufferedInput(f)
    \/ NewBufferedInputErr
    \/ CallNext
    \/ \E f \in InputFrames : ReadFrame(f)
    \/ ReadErr
    \/ ReturnWindow

SpecInput == InputInit /\ [][InputNext]_vars

----------------------------------------------------------------------------
(* The state machine of an Executor thread between its two channels.  The  *)
(* producer (the input device) sends frames of the configured format, the  *)
(* samples being the next ones of the tagged stream, and may drop its end; *)
(* the consumer receives messages and may drop its end.  The thread blocks *)
(* in recv_blocking and in send_blocking, so run is a sequence of steps:   *)
(* one per frame received and processed, one per message sent.             *)

ExecutorOnly ==
    UNCHANGED <<buffer_vars, accumulator_vars, input_vars, time_vars,
                pitch_vars>>

\* The frames the producer may send.
ExecutorFrames ==
    {[channels    |-> ex.channels,
      sample_rate |-> ex.sample_rate,
      samples     |-> Tags(Len(produced), n * ex.channels)] :
        n \in 0..MaxExFrame}

\* Executor::new and start: the thread is about to receive.
ExecutorInit ==
    /\ \E c \in 1..MaxChannels, r \in ExecutorRates : ex = Executor_new(c, r)
    /\ ex_pc = "recv"
    /\ ex_res = <<>>
    /\ ex_exit = "none"
    /\ ex_panic = "none"
    /\ frames = <<>>
    /\ frames_closed = FALSE
    /\ outbound = <<>>
    /\ ui_open = TRUE
    /\ produced = <<>>
    /\ taken = <<>>
    /\ computed = <<>>
    /\ sent = <<>>
    /\ attempts = 0
    /\ delivered = <<>>
    /\ sink = [recorded |-> <<>>, failed |-> FALSE]
    /\ BufferAbsent
    /\ AccumulatorAbsent
    /\ InputAbsent
    /\ TimeAbsent
    /\ PitchAbsent

\* The producer sends the frame f.
ProducerSend(f) ==
    /\ ~frames_closed
    /\ Len(frames) < MaxUpstream
    /\ Len(produced) + Len(f.samples) <= MaxExSamples * ex.channels
    /\ frames' = Append(frames, f)
    /\ produced' = produced \o f.samples
    /\ UNCHANGED <<ex, ex_pc, ex_res, ex_exit, ex_panic, frames_closed,
                   outbound, ui_open, taken, computed, sent, attempts,
                   delivered>>
    /\ UNCHANGED sink
    /\ ExecutorOnly

\* The producer drops its end of the upstream channel.
ProducerClose ==
    /\ ~frames_closed
    /\ frames_closed' = TRUE
    /\ UNCHANGED <<ex, ex_pc, ex_res, ex_exit, ex_panic, frames, outbound,
                   ui_open, produced, taken, computed, sent, attempts,
                   delivered>>
    /\ UNCHANGED sink
    /\ ExecutorOnly

\* recv_blocking returns Ok(f) and process(&f) runs: the sink's write
\* succeeds or fails.
Receive(sink_ok) ==
    /\ ex_pc = "recv"
    /\ frames # <<>>
    /\ LET f == Head(frames)
           r == Executor_process(ex, f)
       IN  /\ frames' = Tail(frames)
           /\ taken' = taken \o f.samples
           /\ sink' = IF sink_ok
                      THEN [sink EXCEPT !.recorded = @ \o f.samples]
                      ELSE [sink EXCEPT !.failed = TRUE]
           /\ ex_panic' = Executor_process_panic(ex, f, sink_ok)
           /\ IF Executor_process_panic(ex, f, sink_ok) # "none"
              THEN /\ ex_pc' = "panicked"
                   /\ ex' = IF sink_ok
                            THEN [ex EXCEPT !.periods = PeriodBuffer_push(@, f)]
                            ELSE ex
                   /\ UNCHANGED <<ex_res, computed>>
              ELSE IF ~r.ends
              THEN /\ ex_pc' = "process"
                   /\ ex' = [ex EXCEPT !.periods = PeriodBuffer_push(@, f)]
                   /\ UNCHANGED <<ex_res, computed>>
              ELSE /\ ex' = [ex EXCEPT !.periods = r.periods]
                   /\ ex_res' = r.res
                   /\ computed' = computed \o r.res
                   /\ ex_pc' = IF r.res = <<>> THEN "recv" ELSE "send"
    /\ UNCHANGED <<ex_exit, frames_closed, outbound, ui_open, produced, sent,
                   attempts, delivered>>
    /\ ExecutorOnly

\* recv_blocking returns Err: the upstream channel is closed and drained.
ReceiveClosed ==
    /\ ex_pc = "recv"
    /\ recv_fails(frames, frames_closed)
    /\ ex_pc' = "closing"
    /\ UNCHANGED <<ex, ex_res, ex_exit, ex_panic, frames, frames_closed,
                   outbound, ui_open, produced, taken, computed, sent,
                   attempts, delivered>>
    /\ UNCHANGED sink
    /\ ExecutorOnly

\* send_blocking(m) returns Ok for the next message of the current frame.
Send ==
    /\ ex_pc = "send"
    /\ ui_open
    /\ ~channel_full(outbound)
    /\ outbound' = Append(outbound, Head(ex_res))
    /\ sent' = Append(sent, Head(ex_res))
    /\ ex_res' = Tail(ex_res)
    /\ ex_pc' = IF Tail(ex_res) = <<>> THEN "recv" ELSE "send"
    /\ UNCHANGED <<ex, ex_exit, ex_panic, frames, frames_closed, ui_open,
                   produced, taken, computed, attempts, delivered>>
    /\ UNCHANGED sink
    /\ ExecutorOnly

\* send_blocking(m) returns Err: the consumer is gone.
SendFails ==
    /\ ex_pc = "send"
    /\ ~ui_open
    /\ ex_pc' = after_send_error(ex_res).pc
    /\ ex_res' = after_send_error(ex_res).res
    /\ ex_exit' = after_send_error(ex_res).exit
    /\ UNCHANGED <<ex, ex_panic, frames, frames_closed, outbound, ui_open,
                   produced, taken, computed, sent, attempts, delivered>>
    /\ UNCHANGED sink
    /\ ExecutorOnly

\* send_blocking(AudioStreamClosed) returns Ok, and run returns.
SendClosed ==
    /\ ex_pc = "closing"
    /\ ui_open
    /\ ~channel_full(outbound)
    /\ outbound' = Append(outbound, AudioStreamClosed)
    /\ sent' = Append(sent, AudioStreamClosed)
    /\ attempts' = attempts + 1
    /\ ex_pc' = "returned"
    /\ ex_exit' = "audio input closed"
    /\ UNCHANGED <<ex, ex_res, ex_panic, frames, frames_closed, ui_open,
                   produced, taken, computed, delivered>>
    /\ UNCHANGED sink
    /\ ExecutorOnly

\* send_blocking(AudioStreamClosed) returns Err, which is dropped, and run
\* returns.
SendClosedFails ==
    /\ ex_pc = "closing"
    /\ ~ui_open
    /\ attempts' = attempts + 1
    /\ ex_pc' = "returned"
    /\ ex_exit' = "audio input closed"
    /\ UNCHANGED <<ex, ex_res, ex_panic, frames, frames_closed, outbound,
                   ui_open, produced, taken, computed, sent, delivered>>
    /\ UNCHANGED sink
    /\ ExecutorOnly

\* The consumer receives a message.
ConsumerReceive ==
    /\ ui_open
    /\ outbound # <<>>
    /\ delivered' = Append(delivered, Head(outbound))
    /\ outbound' = Tail(outbound)
    /\ UNCHANGED <<ex, ex_pc, ex_res, ex_exit, ex_panic, frames,
                   frames_closed, ui_open, produced, taken, computed, sent,
                   attempts>>
    /\ UNCHANGED sink
    /\ ExecutorOnly

\* The consumer drops its end of the outbound channel.
ConsumerClose ==
    /\ ui_open
    /\ ui_open' = FALSE
    /\ UNCHANGED <<ex, ex_pc, ex_res, ex_exit, ex_panic, frames,
                   frames_closed, outbound, produced, taken, computed, sent,
                   attempts, delivered>>
    /\ UNCHANGED sink
    /\ ExecutorOnly

ExecutorThread ==
    \/ \E sink_ok \in BOOLEAN : Receive(sink_ok)
    \/ ReceiveClosed
    \/ Send
    \/ SendFails
    \/ SendClosed
    \/ SendClosedFails

ExecutorNext ==
    \/ \E f \in ExecutorFrames : ProducerSend(f)
    \/ ProducerClose
    \/ ExecutorThread
    \/ ConsumerReceive
    \/ ConsumerClose

SpecExecutor == ExecutorInit /\ [][ExecutorNext]_vars

\* The thread runs whenever it is not blocked, and a connected consumer
\* keeps receiving.
SpecExecutorFair ==
    SpecExecutor /\ WF_vars(ExecutorThread) /\ WF_vars(ConsumerReceive)

----------------------------------------------------------------------------
(* The operations on time values, each applied to a pair of operands.      *)

TimeOnly ==
    UNCHANGED <<buffer_vars, accumulator_vars, input_vars, executor_vars,
                pitch_vars>>

\* The sample numbers of the operands: the small ones, and those of the
\* subtraction Instant(42) - Instant(32).
TimeIndices == (0..MaxIndex) \cup {32, 42}

\* The instants the operations are applied to.
Instants ==
    {Instant_new(i, r) : i \in TimeIndices, r \in Rates}

\* The durations the operations are applied to.
Durations ==
    {Duration_new(n, r) : n \in TimeIndices, r \in Rates}

TimeInit ==
    /\ tm_a \in Instants
    /\ tm_b \in Instants \cup Durations
    /\ tm_op = "none"
    /\ tm_out = "none"
    /\ tm_panic = "none"
    /\ BufferAbsent
    /\ AccumulatorAbsent
    /\ InputAbsent
    /\ ExecutorAbsent
    /\ PitchAbsent

\* tm_a.cmp(&tm_b), which every ordering comparison of two instants
\* (<, <=, >, >=, partial_cmp, max, min) goes through.
Compare ==
    /\ tm_op = "none"
    /\ tm_b \in Instants
    /\ tm_op' = "cmp"
    /\ tm_panic' = Instant_cmp_panic(tm_a, tm_b)
    /\ tm_out' = IF Instant_cmp_panic(tm_a, tm_b) = "none"
                 THEN Instant_cmp(tm_a, tm_b)
                 ELSE "none"
    /\ UNCHANGED <<tm_a, tm_b>>
    /\ TimeOnly

\* tm_a - tm_b, both instants.
SubInstant ==
    /\ tm_op = "none"
    /\ tm_b \in Instants
    /\ tm_op' = "sub"
    /\ tm_panic' = Instant_sub_panic(tm_a, tm_b)
    /\ tm_out' = IF Instant_sub_panic(tm_a, tm_b) = "none"
                 THEN Instant_sub(tm_a, tm_b)
                 ELSE "none"
    /\ UNCHANGED <<tm_a, tm_b>>
    /\ TimeOnly

\* tm_a - tm_b, tm_b being a duration.
SubDuration ==
    /\ tm_op = "none"
    /\ tm_b \in Durations
    /\ tm_op' = "sub_duration"
    /\ tm_panic' = Instant_sub_duration_panic(tm_a, tm_b)
    /\ tm_out' = IF Instant_sub_duration_panic(tm_a, tm_b) = "none"
                 THEN Instant_sub_duration(tm_a, tm_b)
                 ELSE "none"
    /\ UNCHANGED <<tm_a, tm_b>>
    /\ TimeOnly

\* tm_a + tm_b, tm_b being a duration.
AddDuration ==
    /\ tm_op = "none"
    /\ tm_b \in Durations
    /\ tm_op' = "add_duration"
    /\ tm_panic' = "none"
    /\ tm_out' = Instant_add_duration(tm_a, tm_b)
    /\ UNCHANGED <<tm_a, tm_b>>
    /\ TimeOnly

TimeNext ==
    \/ Compare
    \/ SubInstant
    \/ SubDuration
    \/ AddDuration

SpecTime == TimeInit /\ [][TimeNext]_vars

----------------------------------------------------------------------------
(* The conversion of a Duration to wall-clock time, applied to durations    *)
(* whose sample count and rate are numbers of the full width.               *)

\* The rates of the durations converted: 0, small ones, the usual ones and
\* the greatest a u32 holds.
WallRates ==
    {Wide(r) : r \in {0, 1, 2, 3, 10, 44100, 48000}}
        \cup {Wide_sub(U32_LIMIT, Wide(1))}

\* The remainders of the sample counts at rate r: the least and the
\* greatest, and one in between.
WallRemainders(r) ==
    {k \in {<<>>, Wide(1), Wide_div(r, Wide(2)), Wide_sub(r, Wide(1))} :
        Wide_lt(k, r)}

\* The sample counts converted at rate r: some whole seconds and a
\* remainder, and the greatest a usize holds.
WallCounts(r) ==
    IF r = <<>> THEN {<<>>, Wide(1), Wide_sub(U64_LIMIT, Wide(1))}
    ELSE {Wide_add(Wide_mul(Wide(s), r), k) :
              s \in 0..MaxSecs, k \in WallRemainders(r)}
             \cup {Wide_sub(U64_LIMIT, Wide(1))}

WallClockInit ==
    /\ \E r \in WallRates : \E n \in WallCounts(r) : tm_a = Duration_new(n, r)
    /\ tm_b = Absent
    /\ tm_op = "none"
    /\ tm_out = "none"
    /\ tm_panic = "none"
    /\ BufferAbsent
    /\ AccumulatorAbsent
    /\ InputAbsent
    /\ ExecutorAbsent
    /\ PitchAbsent

\* time::Duration::from(tm_a), in a build with or without overflow checks.
IntoWallClock(build) ==
    /\ tm_op = "none"
    /\ tm_op' = "time::Duration::from"
    /\ LET res == time_Duration_from(tm_a, build) IN
          /\ tm_panic' = IF res.ok THEN "none" ELSE res.err
          /\ tm_out' = IF res.ok THEN res.value ELSE "none"
    /\ UNCHANGED <<tm_a, tm_b>>
    /\ TimeOnly

WallClockNext == \E build \in {"debug", "release"} : IntoWallClock(build)

SpecWallClock == WallClockInit /\ [][WallClockNext]_vars

----------------------------------------------------------------------------
(* The conversions of pitches, each applied to a text or to a value.       *)

PitchOnly ==
    UNCHANGED <<buffer_vars, accumulator_vars, input_vars, executor_vars,
                time_vars>>

NoResult == [called |-> FALSE]

\* The note letters of the texts: the seven there are, and one there is not.
Letters == {"A", "B", "C", "D", "E", "F", "G", "H"}

\* The accidentals of the texts: the five spellings, and none.
Accidentals == {<<>>, <<"sharp">>, <<"#">>, <<"s">>, <<"flat">>, <<"b">>}

\* The characters of what follows them.
TailChars == {"4", "2", "-", "+", "Z"}

RECURSIVE TextsOver(_, _)
TextsOver(chars, n) ==
    IF n = 0 THEN {<<>>}
    ELSE LET shorter == TextsOver(chars, n - 1)
         IN  shorter \cup {<<c>> \o t : c \in chars, t \in shorter}

\* What follows the letter and the accidental: every short text, and the
\* tails of "F#4ZZZ", "C4+7", "C4-14", "A-1" and of an octave no i16 holds.
Tails ==
    TextsOver(TailChars, MaxTail)
        \cup {<<"4", "Z", "Z", "Z">>, <<"4", "+", "7">>,
              <<"4", "-", "1", "4">>, <<"-", "1">>,
              <<"4", "4", "4", "4", "4">>}

\* The texts that are parsed.
Texts ==
    {<<>>} \cup {<<l>> \o a \o t : l \in Letters, a \in Accidentals,
                                   t \in Tails}

Semitones == 0..11

\* The octaves of the pitches: the ones around the reference, and the ends
\* of the i16 range.
Octaves ==
    (-MaxOctave..MaxOctave)
        \cup {I16_MIN, I16_MIN + 3, I16_MIN + 4, I16_MAX}

\* The pitches that are written and converted.
Pitches ==
    {Pitch_new_with_cents(s, o, c) : s \in Semitones, o \in Octaves,
                                c \in {0, 7, -14}}

PitchInit ==
    /\ \/ pt_val = [kind |-> "none"] /\ pt_text \in Texts
       \/ pt_val \in {[kind |-> "semitone", semitone |-> s] : s \in Semitones}
            /\ pt_text = <<>>
       \/ pt_val \in {[kind |-> "pitch", pitch |-> p] : p \in Pitches}
            /\ pt_text = <<>>
    /\ pt_op = "start"
    /\ pt_res = NoResult
    /\ pt_build \in {"debug", "release"}
    /\ BufferAbsent
    /\ AccumulatorAbsent
    /\ InputAbsent
    /\ ExecutorAbsent
    /\ TimeAbsent

\* semitone.to_string()
SemitoneToString ==
    /\ pt_op = "start"
    /\ pt_val.kind = "semitone"
    /\ pt_text' = Semitone_fmt(pt_val.semitone)
    /\ pt_op' = "Semitone::to_string"
    /\ UNCHANGED <<pt_val, pt_res, pt_build>>
    /\ PitchOnly

\* Semitone::try_from(text), of a given text or of one just written.
SemitoneTryFrom ==
    /\ \/ pt_op = "start" /\ pt_val.kind = "none"
       \/ pt_op = "Semitone::to_string"
    /\ pt_res' = Semitone_try_from(pt_text)
    /\ pt_op' = "Semitone::try_from"
    /\ UNCHANGED <<pt_val, pt_text, pt_build>>
    /\ PitchOnly

\* pitch.to_string()
PitchToString ==
    /\ pt_op = "start"
    /\ pt_val.kind = "pitch"
    /\ pt_text' = Pitch_fmt(pt_val.pitch)
    /\ pt_op' = "Pitch::to_string"
    /\ UNCHANGED <<pt_val, pt_res, pt_build>>
    /\ PitchOnly

\* Pitch::try_from(text), of a given text or of one just written.
PitchTryFrom ==
    /\ \/ pt_op = "start" /\ pt_val.kind = "none"
       \/ pt_op = "Pitch::to_string"
    /\ pt_res' = Pitch_try_from(pt_text)
    /\ pt_op' = "Pitch::try_from"
    /\ UNCHANGED <<pt_val, pt_text, pt_build>>
    /\ PitchOnly

\* Tuning::A440.freq_from(&pitch), of a pitch of zero cents.
FreqFrom ==
    /\ pt_op = "start"
    /\ pt_val.kind = "pitch"
    /\ pt_val.pitch.cents = 0
    /\ pt_res' = freq_from(A440, pt_val.pitch, pt_build)
    /\ pt_op' = "freq_from"
    /\ UNCHANGED <<pt_val, pt_text, pt_build>>
    /\ PitchOnly

\* Tuning::A440.pitch_from(freq), of the frequency freq_from returned.
PitchFrom ==
    /\ pt_op = "freq_from"
    /\ pt_res.ok
    /\ pt_res' = pitch_from(A440, pt_res.value, pt_build)
    /\ pt_op' = "pitch_from"
    /\ UNCHANGED <<pt_val, pt_text, pt_build>>
    /\ PitchOnly

PitchNext ==
    \/ SemitoneToString
    \/ SemitoneTryFrom
    \/ PitchToString
    \/ PitchTryFrom
    \/ FreqFrom
    \/ PitchFrom

SpecPitch == PitchInit /\ [][PitchNext]_vars

----------------------------------------------------------------------------
(* What the properties are stated in *)

Buffer == pb.buffer

Channels == 0..(Buffer.channels - 1)

\* The sample with absolute index i of channel ch in the input history.
Sample(ch, i) == pushed[i * Buffer.channels + ch + 1]

\* The elements of a ring from front to back.
RingContents(r) ==
    [k \in 1..r.len |-> r.buf[((r.head + k - 1) % capacity(r)) + 1]]

\* The samples of channel ch with absolute indices start .. start+n-1.
Window(ch, start, n) == [k \in 1..n |-> Sample(ch, start + k - 1)]

\* The last n elements of a sequence (all of it when it is shorter).
LastN(s, n) == IF Len(s) <= n THEN s ELSE SubSeq(s, Len(s) - n + 1, Len(s))

\* The samples of a flat interlaced block that belong to channel ch.
Deinterlaced(block, ch, c) ==
    [k \in 1..(Len(block) \div c) |-> block[(k - 1) * c + ch + 1]]

\* In a ring of capacity N the sample with absolute index i is in slot
\* i mod N: a window straddles the wrap point when one of its samples
\* other than the first is in slot 0.
Straddles(v) ==
    \E k \in 1..(v.len - 1) : (v.start_sample_num + k) % Buffer.max_len = 0

----------------------------------------------------------------------------
(* C1: after every push, each channel ring holds exactly the               *)
(* min(sample_count, max_len) most recently pushed samples of its channel, *)
(* in arrival order.                                                       *)

C1_RingHoldsMostRecent ==
    \A ch \in Channels :
        LET r == Buffer.buffers[ch]
            n == Min(Buffer.sample_count, Buffer.max_len)
        IN  /\ r.len = n
            /\ RingContents(r) = Window(ch, Buffer.sample_count - n, n)

\* A push into full rings of a two-channel buffer has evicted samples.
C1_Witness ==
    /\ op = "SampleBuffer::push" /\ panic = "none"
    /\ Buffer.channels = 2
    /\ Buffer.sample_count > Buffer.max_len + 1

----------------------------------------------------------------------------
(* C2: push de-interlaces: the sample at flat index i of a frame is        *)
(* appended to channel (i mod channels), the samples of one channel keep   *)
(* their relative order; [1,2,3,4] pushed as 2 channels gives channel 0 =  *)
(* [1,3] and channel 1 = [2,4].                                            *)

C2_Step ==
    LET block == SubSeq(pushed', Len(pushed) + 1, Len(pushed')) IN
    \A ch \in Channels :
        RingContents(pb'.buffer.buffers[ch]) =
            LastN(RingContents(Buffer.buffers[ch])
                      \o Deinterlaced(block, ch, Buffer.channels),
                  Buffer.max_len)

C2_Example ==
    (Buffer.channels = 2 /\ Buffer.max_len >= 2 /\ pushed = <<1, 2, 3, 4>>)
        => /\ RingContents(Buffer.buffers[0]) = <<1, 3>>
           /\ RingContents(Buffer.buffers[1]) = <<2, 4>>

C2_Deinterlaces == [][C2_Step]_vars /\ []C2_Example

C2_Witness ==
    /\ op = "SampleBuffer::push" /\ panic = "none"
    /\ Buffer.channels = 2 /\ Buffer.max_len >= 2
    /\ pushed = <<1, 2, 3, 4>>
    /\ RingContents(Buffer.buffers[0]) = <<1, 3>>

----------------------------------------------------------------------------
(* C3: for every view from get_window or next(), get_channel(ch) succeeds  *)
(* and returns two slices whose concatenation is exactly the samples of    *)
(* channel ch with absolute indices start_sample_num ..                    *)
(* start_sample_num+len, in time order; the second slice is non-empty      *)
(* exactly when the window straddles the wrap point.                       *)

C3_ChannelSlices ==
    /\ op = "get_channel" => panic = "none"
    /\ cp.valid =>
          LET v == view.period
              c == cp.period
          IN  /\ c.start_sample_num = v.start_sample_num
              /\ c.len = v.len
              /\ c.slices[1] \o c.slices[2]
                    = Window(cp.channel, v.start_sample_num, v.len)
              /\ (c.slices[2] # <<>>) <=> Straddles(v)

\* A window handed out by next() that is split across the wrap point.
C3_Witness ==
    /\ cp.valid /\ view.from = "next"
    /\ cp.period.slices[1] # <<>>
    /\ cp.period.slices[2] # <<>>

----------------------------------------------------------------------------
(* C4: the k-th (0-based) window returned by next() covers the absolute    *)
(* indices [k*S, k*S + L), however pushes and next() calls interleave;     *)
(* each successful next() advances next_period_end by exactly S.           *)

C4_KthWindow ==
    stage = "PeriodBuffer" =>
        /\ pb.next_period_end = pb.period_len + nwin * pb.period_stride
        /\ (view.valid /\ view.from = "next") =>
              view.period = View((nwin - 1) * pb.period_stride, pb.period_len)

\* The third window of a sequencer with overlapping windows.
C4_Witness ==
    /\ stage = "PeriodBuffer" /\ op = "next" /\ view.valid
    /\ nwin = 3
    /\ 0 < pb.period_stride /\ pb.period_stride < pb.period_len

----------------------------------------------------------------------------
(* C5: in every state of a PeriodBuffer reached without a failed           *)
(* operation, next_period_end - period_len >= oldest_sample_index(); a     *)
(* push that evicts the start of the next scheduled window fails with      *)
(* WindowLost, so that no next() returns a window with missing samples.    *)

C5_NextWindowKept ==
    stage = "PeriodBuffer" =>
        /\ \/ pb.next_period_end - pb.period_len >= oldest_sample_index(Buffer)
           \/ (op = "PeriodBuffer::push" /\ panic = "WindowLost")
        /\ (view.valid /\ view.from = "next") =>
              view.period.start_sample_num >= oldest_sample_index(Buffer)

C5_Witness ==
    /\ stage = "PeriodBuffer" /\ panic = "WindowLost"
    /\ nwin > 0

----------------------------------------------------------------------------
(* C6: has_next() is true exactly when sample_count >= next_period_end;    *)
(* next() returns a window if and only if has_next() is true, and a next() *)
(* that returns nothing leaves next_period_end and the ring unchanged.     *)

C6_Step ==
    op' = "next" =>
        /\ has_next(pb) <=> (pb.buffer.sample_count >= pb.next_period_end)
        /\ view'.valid <=> (pb.buffer.sample_count >= pb.next_period_end)
        /\ ~view'.valid => pb' = pb

C6_NextIffHasNext == [][C6_Step]_vars

\* next() has returned nothing although samples have arrived.
C6_Witness ==
    /\ op = "next" /\ ~view.valid
    /\ Buffer.sample_count > 0
    /\ nwin > 0

----------------------------------------------------------------------------
(* C7: get_window(period) fails when period.start < oldest_sample_index()  *)
(* or period.end > sample_count, and otherwise returns a view with         *)
(* start_sample_num = period.start and len = period.end - period.start;    *)
(* every view it returns lies within [oldest_sample_index, sample_count].  *)

\* What the get_window(arg) call just made must have done according to the
\* claim (get_window takes &self: the buffer is as the call found it).
C7_Contract ==
    LET start == arg.start_index
        end   == arg.start_index + arg.sample_count
    IN  /\ (panic # "none") <=>
               (start < oldest_sample_index(Buffer) \/ end > Buffer.sample_count)
        /\ panic = "none" =>
               /\ view.valid
               /\ view.period = View(start, end - start)
               /\ view.period.start_sample_num >= oldest_sample_index(Buffer)
               /\ view.period.start_sample_num + view.period.len
                      <= Buffer.sample_count

\* The claim as made: for every period.
C7_Original == op = "get_window" => C7_Contract

\* The claim as amended: for every period that has the buffer's sample rate;
\* a period of another sample rate always fails.
C7_GetWindow ==
    op = "get_window" =>
        IF arg.sample_rate = Buffer.sample_rate
        THEN C7_Contract
        ELSE panic = "RateMismatch" /\ ~view.valid

\* A view returned for a window that starts at the oldest retained sample of
\* a buffer that has evicted samples.
C7_Witness ==
    /\ op = "get_window" /\ view.valid
    /\ view.period.start_sample_num = oldest_sample_index(Buffer)
    /\ oldest_sample_index(Buffer) > 0
    /\ view.period.len > 0

----------------------------------------------------------------------------
(* C8: the timeseries of a ChannelPeriod yields exactly len pairs and then *)
(* ends; the k-th pair is (Instant(start_sample_num + k), k-th sample of   *)
(* the window), walking the first slice and then the second, also when the *)
(* window is split into two non-empty slices.                              *)

\* The pairs the claim describes, for the live iterator.
C8_Expected ==
    LET v == view.period IN
    [k \in 1..v.len |->
        <<Instant_new(v.start_sample_num + k - 1, Buffer.sample_rate),
          Sample(ts.channel, v.start_sample_num + k - 1)>>]

C8_TimeseriesYieldsWindow ==
    ts.valid =>
        /\ Len(ts.out) <= Len(C8_Expected)
        /\ ts.out = SubSeq(C8_Expected, 1, Len(ts.out))
        /\ ts.ended => ts.out = C8_Expected

----------------------------------------------------------------------------
(* C9: a FrameAccumulator driven by push_input followed by pop_output for  *)
(* each scalar: pop_output yields nothing until exactly frame_len scalars  *)
(* have accumulated since the last frame, then yields one Frame holding    *)
(* those scalars in push order, tagged with the configured channel count   *)
(* and rate, and empties the buffer, so that an immediately repeated       *)
(* pop_output yields nothing; the frames are the consecutive,              *)
(* non-overlapping frame_len-sized chunks of the input, no scalar lost or  *)
(* duplicated.                                                             *)

RECURSIVE Flatten(_)
Flatten(fs) ==
    IF fs = <<>> THEN <<>>
    ELSE fs[1].samples \o Flatten(Tail(fs))

Popped == acc_op \in {"pop_output:Some", "pop_output:None"}

C9_Chunks ==
    /\ Flatten(emitted) \o acc.samples = fed
    /\ Popped => Len(acc.samples) < acc.frame_len
    /\ acc_op = "pop_output:Some" =>
          LET f == emitted[Len(emitted)] IN
              /\ f.channels = acc.channels
              /\ f.sample_rate = acc.sample_rate
              /\ Len(f.samples) = acc.frame_len
              /\ f.samples = LastN(fed, acc.frame_len)
              /\ acc.samples = <<>>
    /\ (Popped /\ acc_prev = "pop_output:Some") => acc_op = "pop_output:None"

\* The claim as made: for every accumulator.
C9_Original == (acc # Absent /\ in_order) => C9_Chunks

\* The claim as amended: for every accumulator with frame_len >= 1.
C9_FrameAccumulator ==
    (acc # Absent /\ in_order /\ acc.frame_len >= 1) => C9_Chunks

\* The second frame of two scalars, popped right after its last scalar.
C9_Witness ==
    /\ acc # Absent /\ in_order
    /\ acc.frame_len = 2
    /\ acc_op = "pop_output:Some" /\ acc_prev = "push_input"
    /\ Len(emitted) = 2
    /\ fed = <<1, 2, 3, 4>>

----------------------------------------------------------------------------
(* C10: BufferedInput::new(input, P) reads exactly one frame, builds a     *)
(* sequencer of window length P and stride P over a ring of capacity 2*P   *)
(* and pushes that frame; the k-th (0-based) successful next() returns the *)
(* window [k*P, (k+1)*P): the windows tile the input stream with no sample *)
(* lost, duplicated or reordered, each frame read is pushed into the ring  *)
(* exactly once, and next() reads a further frame only while no window is  *)
(* available.                                                              *)

\* The sample with absolute index i of channel ch of the stream read.
ReadSample(ch, i) == bi_read[i * bi.buffer.channels + ch + 1]

C10_Built ==
    /\ bi.period_len = bi_period
    /\ bi.period_stride = bi_period
    /\ bi.buffer.max_len = 2 * bi_period
    /\ bi_ret = "new:Ok" => bi_frames = 1

\* Every sample read is in the ring once, in its channel and in order,
\* while it is retained.
C10_PushedOnce ==
    /\ bi.buffer.sample_count * bi.buffer.channels = Len(bi_read)
    /\ \A ch \in 0..(bi.buffer.channels - 1) :
          LET r == bi.buffer.buffers[ch]
              n == Min(bi.buffer.sample_count, bi.buffer.max_len)
          IN  RingContents(r) =
                  [k \in 1..n |-> ReadSample(ch, bi.buffer.sample_count - n + k - 1)]

C10_Tiles ==
    /\ bi.next_period_end = (bi_win + 1) * bi_period
    /\ bi_view.valid =>
          /\ bi_ret = "next:Ok"
          /\ bi_view.period = View((bi_win - 1) * bi_period, bi_period)
          /\ \A ch \in 0..(bi.buffer.channels - 1) :
                LET c == get_channel(bi.buffer, bi_view.period, ch) IN
                    /\ c.panic = "none"
                    /\ c.slices[1] \o c.slices[2] =
                          [k \in 1..bi_period |->
                              ReadSample(ch, (bi_win - 1) * bi_period + k - 1)]

C10_State ==
    bi_pc \in {"idle", "next"} => (C10_Built /\ C10_PushedOnce /\ C10_Tiles)

\* A frame is read inside next() only when no window is available, and a
\* call that finds a window available returns it.
C10_Step ==
    /\ (bi_pc = "next" /\ bi_frames' > bi_frames) =>
           bi.buffer.sample_count < bi.next_period_end
    /\ (bi_pc = "next" /\ bi_ret' = "next:Ok") =>
           /\ bi.buffer.sample_count >= bi.next_period_end
           /\ bi_frames' = bi_frames
           /\ bi_win' = bi_win + 1

C10_BufferedInput == []C10_State /\ [][C10_Step]_vars

\* The third window of a two-channel stream, returned by a call that had to
\* read.
C10_Witness ==
    /\ bi_pc = "idle" /\ bi_ret = "next:Ok" /\ bi_view.valid
    /\ bi_win = 3 /\ bi_period = 2 /\ bi.buffer.channels = 2
    /\ bi_frames >= 3
    /\ bi.buffer.sample_count > bi.buffer.max_len

----------------------------------------------------------------------------
(* C11: when read() returns an error, new and next return it at once       *)
(* without reading again; the failed call leaves next_period_end, the      *)
(* rings and the frames read so far as they were, so that the windows      *)
(* returned by later calls of next() are still the consecutive ones, each  *)
(* holding its samples of the stream read.                                 *)

\* The call that meets the error ends with it and changes nothing.
C11_Step ==
    (bi_ret' \in {"new:Err", "next:Err"} /\ bi_ret' # bi_ret) =>
        /\ bi_pc' \in {"idle", "done"}
        /\ bi' = bi
        /\ bi_read' = bi_read
        /\ bi_frames' = bi_frames
        /\ bi_win' = bi_win
        /\ bi_err_frames' = bi_frames

\* After an error nothing read is missing from the rings and the window
\* sequence goes on where it was.
C11_State ==
    (bi_err_frames >= 0 /\ bi_pc \in {"idle", "next"}) =>
        /\ C10_PushedOnce
        /\ bi.next_period_end = (bi_win + 1) * bi_period
        /\ bi_view.valid =>
              /\ bi_view.period = View((bi_win - 1) * bi_period, bi_period)
              /\ \A ch \in 0..(bi.buffer.channels - 1) :
                    LET c == get_channel(bi.buffer, bi_view.period, ch) IN
                        c.slices[1] \o c.slices[2] =
                            [k \in 1..bi_period |->
                                ReadSample(ch, (bi_win - 1) * bi_period + k - 1)]

\* C11: an input error is returned without retrying and loses no frame
\* and no window.
C11_ErrorPropagated == []C11_State /\ [][C11_Step]_vars

\* A call of next() read a frame and then met an error; a later call read
\* on and returned the second window.
C11_Witness ==
    /\ bi_err_frames >= 2 /\ bi_frames > bi_err_frames
    /\ bi_ret = "next:Ok" /\ bi_view.valid /\ bi_win = 2 /\ bi_period >= 2

----------------------------------------------------------------------------
(* The Executor's properties are stated in these. *)

IsPrefix(a, b) == Len(a) <= Len(b) /\ a = SubSeq(b, 1, Len(a))

IsLevels(m) == m.kind = "RMSLevels"

\* The level summaries among the messages sent.
SentLevels == SelectSeq(sent, IsLevels)

\* The samples of channel ch (0-based) in the window [start, start + n) of
\* the frames run has received.
TakenWindow(ch, start, n) ==
    [j \in 1..n |-> taken[(start + j - 1) * ex.channels + ch + 1]]

\* The k-th (1-based) level summary of the stream received.
KthLevels(k) ==
    LET len == ex.sample_rate \div 10 IN
        [kind   |-> "RMSLevels",
         time   |-> Instant_new((k - 1) * len, ex.sample_rate),
         values |-> [i \in 1..ex.channels |->
                        TakenWindow(i - 1, (k - 1) * len, len)]]

----------------------------------------------------------------------------
(* C12: when the upstream channel is closed, run has processed every frame *)
(* it received (all of their messages are sent) before it attempts to send *)
(* AudioStreamClosed, which it does exactly once before returning;         *)
(* AudioStreamClosed is sent at most once and is the last message sent.    *)
C12_ClosedLast ==
    /\ attempts <= 1
    /\ \A k \in 1..Len(sent) : sent[k] = AudioStreamClosed => k = Len(sent)
    /\ (ex_pc = "closing" \/ ex_exit = "audio input closed") =>
          /\ frames_closed /\ frames = <<>>
          /\ taken = produced
          /\ ex_res = <<>>
          /\ SentLevels = computed
    /\ ex_exit = "audio input closed" <=> attempts = 1
    /\ attempts = 1 => ex_pc = "returned"
    /\ AudioStreamClosed \in {sent[k] : k \in 1..Len(sent)} => attempts = 1

\* The producer closed after sending frames whose summaries were all sent,
\* and the terminal message followed them.
C12_Witness ==
    /\ ex_exit = "audio input closed" /\ ex_pc = "returned"
    /\ Len(sent) >= 4 /\ sent[Len(sent)] = AudioStreamClosed
    /\ Len(taken) >= 3 * ex.channels

----------------------------------------------------------------------------
(* C13: when a send fails because the consumer is gone, run returns at     *)
(* once: the failed message and the rest of the current frame's messages   *)
(* are not sent, no further frame is received or processed, and no         *)
(* AudioStreamClosed is sent or attempted.                                 *)
C13_State ==
    /\ ex_exit = "UI closed" =>
          /\ ex_pc = "returned" /\ ~ui_open
          /\ ex_res # <<>>
          /\ sent \o ex_res = computed
          /\ attempts = 0
    /\ ex_pc = "send" => ex_res # <<>>

C13_Step ==
    /\ (ex_pc = "send" /\ ~ui_open
            /\ <<ex_pc, ex_res, ex_exit>>' # <<ex_pc, ex_res, ex_exit>>) =>
          /\ ex_pc' = "returned" /\ ex_exit' = "UI closed"
          /\ ex_res' = ex_res
    /\ sent' # sent => ui_open
    /\ ex_pc = "returned" =>
          /\ ex_pc' = "returned"
          /\ UNCHANGED <<ex, ex_res, ex_exit, taken, computed, sent, attempts>>

\* C13: a failed send ends run at once and silently.
C13_SendFailureReturns == []C13_State /\ [][C13_Step]_vars

\* The consumer left while two messages of a frame were still to send and
\* another frame was waiting upstream.
C13_Witness ==
    /\ ex_exit = "UI closed" /\ ex_pc = "returned"
    /\ Len(ex_res) >= 2 /\ frames # <<>> /\ Len(sent) >= 1

----------------------------------------------------------------------------
----------------------------------------------------------------------------
(* C15: the outbound channel never holds more than CHANNEL_MAX messages; a *)
(* send completes only when there is room, the thread waiting otherwise;   *)
(* while the consumer is connected what it has received and what is in     *)
(* flight are together exactly the messages sent, which are a prefix of    *)
(* the messages computed: nothing lost, duplicated or reordered.           *)
C15_State ==
    /\ Len(outbound) <= CHANNEL_MAX
    /\ IsPrefix(SentLevels, computed)
    /\ ex_pc \in {"recv", "send", "closing"} => SentLevels \o ex_res = computed
    /\ ui_open =>
          /\ delivered \o outbound = sent
          /\ IsPrefix(delivered, computed \o <<AudioStreamClosed>>)

C15_Step ==
    /\ sent' # sent =>
          /\ Len(outbound) < CHANNEL_MAX
          /\ sent' = Append(sent, outbound'[Len(outbound')])
    /\ (ex_pc \in {"send", "closing"} /\ ui_open /\ Len(outbound) = CHANNEL_MAX) =>
          UNCHANGED <<ex_pc, ex_res, sent, computed, taken>>

----------------------------------------------------------------------------
(* C16: under fair scheduling, if the upstream channel is eventually       *)
(* closed (the consumer keeps receiving, or disconnects), run eventually   *)
(* returns.                                                                *)
C16_Returns == (<>frames_closed) => <>(ex_pc = "returned")

----------------------------------------------------------------------------
(* C17: sample_count starts at 0 and never decreases; every accepted push  *)
(* adds (frame length / channels) to it, also when the rings are full, so  *)
(* that it counts the whole history; oldest_sample_index() is              *)
(* sample_count - min(sample_count, max_len) and never decreases.          *)
C17_State ==
    /\ op = "new" => Buffer.sample_count = 0
    /\ Buffer.sample_count * Buffer.channels = Len(pushed)
    /\ oldest_sample_index(Buffer) =
          Buffer.sample_count - Min(Buffer.sample_count, Buffer.max_len)

C17_Step ==
    /\ Buffer'.sample_count >= Buffer.sample_count
    /\ Buffer'.sample_count - Buffer.sample_count =
          (Len(pushed') - Len(pushed)) \div Buffer.channels
    /\ oldest_sample_index(Buffer') >= oldest_sample_index(Buffer)

\* C17: sample_count counts every sample pushed and never goes back.
C17_CountsHistory == []C17_State /\ [][C17_Step]_vars

\* A push into full rings was counted in full.
C17_Witness ==
    /\ op \in {"SampleBuffer::push", "PeriodBuffer::push"} /\ panic = "none"
    /\ Buffer.sample_count >= Buffer.max_len + 2
    /\ oldest_sample_index(Buffer) >= 2

----------------------------------------------------------------------------
(* C18: a push of a frame whose channel count or sample rate is not the    *)
(* buffer's, or whose flat length is not a multiple of the channel count,  *)
(* fails, and leaves sample_count and every ring as they were; a frame     *)
(* without these faults does not fail in this way.                         *)
Faulty(f) ==
    \/ f.channels # Buffer.channels
    \/ f.sample_rate # Buffer.sample_rate
    \/ Len(f.samples) % Buffer.channels # 0

\* Whatever frame is pushed next, the push fails on its format or shape
\* exactly when the frame is faulty.
C18_State ==
    \A f \in Frames :
        /\ Faulty(f) <=> SampleBuffer_push_panic(Buffer, f) # "none"
        /\ Faulty(f) <=>
               PeriodBuffer_push_panic(pb, f) \in {"FormatMismatch", "Malformed"}

\* A push that fails so changes nothing; a push that does not has taken a
\* whole number of samples per channel.
C18_Step ==
    op' \in {"SampleBuffer::push", "PeriodBuffer::push"} =>
        IF panic' \in {"FormatMismatch", "Malformed"}
        THEN Buffer' = Buffer /\ pushed' = pushed
        ELSE /\ (Len(pushed') - Len(pushed)) % Buffer.channels = 0
             /\ pushed' = pushed \o Tags(Len(pushed), Len(pushed') - Len(pushed))
             /\ Buffer'.sample_rate = Buffer.sample_rate
             /\ Buffer'.channels = Buffer.channels

\* C18: a frame of the wrong format or shape is refused whole.
C18_PushRefused == []C18_State /\ [][C18_Step]_vars

\* A two-channel buffer with full rings has refused a frame of odd length.
C18_Witness ==
    /\ op \in {"SampleBuffer::push", "PeriodBuffer::push"}
    /\ panic = "Malformed"
    /\ Buffer.channels = 2 /\ Buffer.sample_count > Buffer.max_len

----------------------------------------------------------------------------
(* C19: a push never rotates a ring: in a ring of capacity N the sample    *)
(* with absolute index i is in physical slot (i mod N) while it is         *)
(* retained; the older segment runs from the read cursor to the array end  *)
(* and the newer one from slot 0 to the write cursor.  A capacity-4 mono   *)
(* buffer that received 3 and then 2 samples has segments of 3 and 1.      *)
C19_NoRotation ==
    /\ \A ch \in Channels :
          LET r     == Buffer.buffers[ch]
              N     == capacity(r)
              old   == oldest_sample_index(Buffer)
              first == N - (old % N)
          IN  /\ N = Buffer.max_len
              /\ \A i \in old..(Buffer.sample_count - 1) :
                    r.buf[(i % N) + 1] = Sample(ch, i)
              /\ r.len > 0 => r.head = old % N
              /\ as_slices(r) =
                    IF r.len <= first
                    THEN << Window(ch, old, r.len), <<>> >>
                    ELSE << Window(ch, old, first),
                            Window(ch, old + first, r.len - first) >>
              /\ r.len > first =>
                    /\ as_slices(r)[1] = SubSeq(r.buf, r.head + 1, N)
                    /\ as_slices(r)[2] =
                          SubSeq(r.buf, 1, Buffer.sample_count % N)
    /\ (Buffer.channels = 1 /\ Buffer.max_len = 4 /\ Buffer.sample_count = 5) =>
          as_slices(Buffer.buffers[0]) = << <<2, 3, 4>>, <<5>> >>

\* The capacity-4 mono buffer after 3 + 2 samples: the first sample has been
\* replaced in place by the fifth.
C19_Witness ==
    /\ Buffer.channels = 1 /\ Buffer.max_len = 4 /\ Buffer.sample_count = 5
    /\ op = "SampleBuffer::push" /\ panic = "none"
    /\ Buffer.buffers[0].buf = <<5, 2, 3, 4>>
    /\ Buffer.buffers[0].head = 1

----------------------------------------------------------------------------
(* C20: an ordering comparison of two Instants of the same sample rate     *)
(* orders them by sample index, which is a total order (Instant(10) >      *)
(* Instant(5)); a comparison of two Instants of different rates fails      *)
(* instead of returning a result.                                          *)
Reverse(o) ==
    IF o = "Less" THEN "Greater" ELSE IF o = "Greater" THEN "Less" ELSE o

C20_InstantOrder ==
    tm_op = "cmp" =>
        IF tm_a.sample_rate = tm_b.sample_rate
        THEN /\ tm_panic = "none"
             /\ tm_out = "Less" <=> tm_a.sample_index < tm_b.sample_index
             /\ tm_out = "Equal" <=> tm_a.sample_index = tm_b.sample_index
             /\ tm_out = "Greater" <=> tm_a.sample_index > tm_b.sample_index
             /\ tm_out = "Equal" <=> tm_a = tm_b
             /\ Instant_gt(tm_a, tm_b) <=> tm_out = "Greater"
             /\ Instant_cmp(tm_b, tm_a) = Reverse(tm_out)
             /\ \A c \in Instants :
                   (/\ Instant_cmp_panic(tm_b, c) = "none"
                    /\ tm_out \in {"Less", "Equal"}
                    /\ Instant_cmp(tm_b, c) \in {"Less", "Equal"})
                       => /\ Instant_cmp_panic(tm_a, c) = "none"
                          /\ Instant_cmp(tm_a, c) \in {"Less", "Equal"}
        ELSE tm_panic = "RateMismatch" /\ tm_out = "none"

\* Instant(10) and Instant(5) of one rate have been compared.
C20_Witness ==
    /\ tm_op = "cmp"
    /\ tm_a = Instant_new(10, 44100) /\ tm_b = Instant_new(5, 44100)
    /\ tm_out = "Greater" /\ tm_panic = "none"

----------------------------------------------------------------------------
(* C21: Instant - Instant, Instant + Duration and Instant - Duration each  *)
(* fail with a rate mismatch when their operands have different sample     *)
(* rates, and return no value computed from such operands.                 *)
C21_NoMixedRates ==
    (/\ tm_op \in {"sub", "sub_duration", "add_duration"}
     /\ tm_a.sample_rate # tm_b.sample_rate)
        => tm_panic = "RateMismatch"

----------------------------------------------------------------------------
(* C22: for operands of one rate, Instant(a) - Instant(b) is               *)
(* Duration(a - b) when a >= b (Instant(42) - Instant(32) = Duration(10))  *)
(* and fails with an underflow when b > a; Instant(a) - Duration(d) is     *)
(* Instant(a - d) when a >= d and fails likewise when d > a; no            *)
(* subtraction returns a value that wrapped around.                        *)
C22_CheckedSubtraction ==
    /\ (tm_op = "sub" /\ tm_a.sample_rate = tm_b.sample_rate) =>
          IF tm_a.sample_index >= tm_b.sample_index
          THEN /\ tm_panic = "none"
               /\ tm_out = Duration_new(tm_a.sample_index - tm_b.sample_index,
                                        tm_a.sample_rate)
          ELSE tm_panic = "Underflow"
    /\ (tm_op = "sub_duration" /\ tm_a.sample_rate = tm_b.sample_rate) =>
          IF tm_a.sample_index >= tm_b.sample_count
          THEN /\ tm_panic = "none"
               /\ tm_out = Instant_new(tm_a.sample_index - tm_b.sample_count,
                                       tm_a.sample_rate)
          ELSE tm_panic = "Underflow"
    /\ (tm_op = "sub" /\ tm_panic = "none") =>
          tm_out.sample_count \in 0..tm_a.sample_index
    /\ (tm_op = "sub_duration" /\ tm_panic = "none") =>
          tm_out.sample_index \in 0..tm_a.sample_index
    /\ (/\ tm_op = "sub"
        /\ tm_a.sample_rate = tm_b.sample_rate
        /\ tm_a.sample_index = 42 /\ tm_b.sample_index = 32) =>
          tm_out = Duration_new(10, tm_a.sample_rate)

\* Instant(32) - Instant(42) of one rate has failed.
C22_Witness ==
    /\ tm_op = "sub" /\ tm_panic = "Underflow"
    /\ tm_a = Instant_new(32, 44100) /\ tm_b = Instant_new(42, 44100)

----------------------------------------------------------------------------
(* Pitches and their text *)

\* The semitone of a letter without an accidental: the white keys, counted
\* from C.
NaturalOf(letter) ==
    CASE letter = "C" -> 0
      [] letter = "D" -> 2
      [] letter = "E" -> 4
      [] letter = "F" -> 5
      [] letter = "G" -> 7
      [] letter = "A" -> 9
      [] letter = "B" -> 11

SharpSpellings == {"sharp", "#", "s"}

FlatSpellings == {"flat", "b"}

\* The accidental a text has after its letter: +1 for a sharp, -1 for a
\* flat, 0 for none.
AccidentalOf(text) ==
    IF Len(text) < 2 THEN 0
    ELSE IF text[2] \in SharpSpellings THEN 1
    ELSE IF text[2] \in FlatSpellings THEN -1
    ELSE 0

\* What follows the letter and the accidental of a text.
AfterSemitone(text) ==
    IF AccidentalOf(text) = 0 THEN SubSeq(text, 2, Len(text))
    ELSE SubSeq(text, 3, Len(text))

\* E sharp, B sharp, C flat and F flat: there is no key of that name between
\* two white keys a semitone apart.
NoNaturalMapping(text) ==
    \/ text[1] \in {"E", "B"} /\ AccidentalOf(text) = 1
    \/ text[1] \in {"C", "F"} /\ AccidentalOf(text) = -1

\* A given text has been parsed as a bare semitone.
SemitoneParsed == pt_op = "Semitone::try_from" /\ pt_val.kind = "none"

\* C23: for each of the 12 semitones s, the text s is displayed as is its
\* letter alone or its letter and the sharp sign, and parsing that text
\* gives s again.
C23_SemitoneRoundTrip ==
    (pt_op = "Semitone::try_from" /\ pt_val.kind = "semitone")
        => /\ pt_res = Ok(pt_val.semitone)
           /\ Len(pt_text) \in {1, 2}
           /\ Len(pt_text) = 2 => pt_text[2] = "sharp"

C23_Witness ==
    /\ pt_op = "Semitone::try_from"
    /\ pt_val = [kind |-> "semitone", semitone |-> 6]
    /\ pt_text = <<"F", "sharp">>
    /\ pt_res = Ok(6)

OctaveThenMore(text) ==
    \E k \in 1..(Len(text) - 1) : parse_i16(SubSeq(text, 1, k)).ok

\* A given text has been parsed as a pitch.
PitchParsed == pt_op = "Pitch::try_from" /\ pt_val.kind = "none"

\* C25: parsing a text as a pitch takes a semitone and then a signed
\* integer octave, and nothing may be left: a text with more after a valid
\* semitone and octave fails with the trailing-garbage error, and one with
\* no valid octave after the semitone fails with the bad-octave error.
C25_TrailingGarbage ==
    (PitchParsed /\ try_from_prefix(pt_text).ok)
        => LET semitone == try_from_prefix(pt_text).value
               remain == try_from_prefix(pt_text).remain
           IN  IF parse_i16(remain).ok
               THEN pt_res = Ok(Pitch_new(semitone, parse_i16(remain).value))
               ELSE IF OctaveThenMore(remain)
               THEN pt_res = Err("Trailing garbage")
               ELSE pt_res = Err("Bad octave")

\* A text is an octave and then signed cents.
OctaveThenCents(text) ==
    \E k \in 1..(Len(text) - 1) :
        /\ parse_i16(SubSeq(text, 1, k)).ok
        /\ text[k + 1] \in {"+", "-"}
        /\ parse_i16(SubSeq(text, k + 1, Len(text))).ok

\* C26: a text in the canonical format, a semitone, an octave and then
\* signed cents or nothing, is accepted by the pitch parser, and parsing
\* the text a Pitch is displayed as gives that Pitch again.
C26_PitchRoundTrip ==
    /\ (PitchParsed /\ try_from_prefix(pt_text).ok
            /\ OctaveThenCents(try_from_prefix(pt_text).remain))
        => pt_res.ok
    /\ (pt_op = "Pitch::try_from" /\ pt_val.kind = "pitch")
        => pt_res = Ok(pt_val.pitch)

\* The count of semitones from the reference pitch to a pitch.
Offset(tuning, p) ==
    (p.octave - tuning.ref_pitch.octave) * 12
        + p.semitone - tuning.ref_pitch.semitone

\* C27: for every pitch p of zero cents, freq_from computes the frequency
\* from the offset n = (p.octave - ref.octave) * 12 + p.semitone -
\* ref.semitone, and pitch_from maps the frequency of that offset back to
\* exactly p.
C27_TuningInverse ==
    /\ pt_op = "freq_from" => pt_res = Ok(Offset(A440, pt_val.pitch))
    /\ pt_op = "pitch_from" => pt_res = Ok(pt_val.pitch)

\* What holds of the pitches whose octave is at least the reference's above
\* the least i16: for them the conversions are inverse.
TuningInverseInRange ==
    (pt_op \in {"freq_from", "pitch_from"}
        /\ pt_val.pitch.octave - A440.ref_pitch.octave >= I16_MIN)
        => /\ pt_op = "freq_from" => pt_res = Ok(Offset(A440, pt_val.pitch))
           /\ pt_op = "pitch_from" => pt_res = Ok(pt_val.pitch)

----------------------------------------------------------------------------
(* C28: a failed write of a frame to the recording sink is fatal: process  *)
(* unwinds before the frame is pushed into the sequencer, no message is    *)
(* computed or sent for that frame or for a later one, no later frame is   *)
(* received, and nothing more is written to the sink.                      *)
C28_State ==
    sink.failed =>
        /\ ex_pc = "panicked"
        /\ ex_panic = "session.wav write error"
        /\ IsPrefix(sink.recorded, taken)
        /\ Len(sink.recorded) = ex.periods.buffer.sample_count * ex.channels

C28_Step ==
    /\ (sink'.failed /\ ~sink.failed) =>
          /\ Len(frames') < Len(frames)
          /\ taken' = taken \o Head(frames).samples
          /\ sink'.recorded = sink.recorded
          /\ UNCHANGED <<ex, computed, sent, ex_res, attempts>>
    /\ sink.failed =>
          UNCHANGED <<ex, ex_pc, ex_res, taken, computed, sent, attempts, sink>>

\* C28: a failed write to the sink ends the Executor before the frame is
\* pushed; nothing is computed, sent or written after it.
C28_SinkFailureFatal == []C28_State /\ [][C28_Step]_vars

\* The write of a frame failed after summaries of earlier frames had been
\* sent, another frame waiting upstream.
C28_Witness ==
    /\ sink.failed /\ ex_pc = "panicked"
    /\ sent # <<>> /\ frames # <<>>
    /\ Len(taken) > ex.periods.buffer.sample_count * ex.channels
    /\ Len(sink.recorded) < Len(taken)

----------------------------------------------------------------------------
(* C29: whenever process has returned, every frame received has been       *)
(* written to the sink and pushed into the sequencer, the sequencer has no *)
(* window available, and the messages returned so far are one per complete *)
(* window of the stream received, in window order, the k-th with the start *)
(* time of the k-th window and one value per channel, that of the          *)
(* channel's samples in that window.                                       *)
C29_State ==
    (ex_pc \in {"recv", "send", "closing", "returned"}) =>
        /\ sink.recorded = taken
        /\ ex.periods.buffer.sample_count * ex.channels = Len(taken)
        /\ ex.periods.period_len > 0 =>
              Len(computed) = ex.periods.buffer.sample_count
                                  \div ex.periods.period_len
        /\ \A k \in 1..Len(computed) :
              /\ computed[k].kind = "RMSLevels"
              /\ computed[k].time =
                     Instant_new((k - 1) * ex.periods.period_len,
                                 ex.sample_rate)
              /\ DOMAIN computed[k].values = 1..ex.channels
              /\ \A i \in 1..ex.channels :
                    computed[k].values[i] =
                        TakenWindow(i - 1, (k - 1) * ex.periods.period_len,
                                    ex.periods.period_len)

\* A step in which process is called and returns.
C29_Step ==
    (Len(frames') < Len(frames) /\ ex_pc' \in {"recv", "send"}) =>
        /\ ~has_next(ex'.periods)
        /\ computed' = computed \o ex_res'
        /\ sink'.recorded = sink.recorded \o Head(frames).samples

----------------------------------------------------------------------------
\* C30: the time of a level summary is the end time of the window it
\* summarises, its start index plus the window length.
C30_TimeIsEnd ==
    \A k \in 1..Len(computed) :
        computed[k].time =
            Instant_new((k - 1) * ex.periods.period_len + ex.periods.period_len,
                        ex.sample_rate)

----------------------------------------------------------------------------
\* C31: every frame a FrameAccumulator has emitted has a flat length that
\* is a multiple of its channel count, however the accumulator was
\* configured (FrameAccumulator::new, with_frame_len).
C31_FramesWhole ==
    \A k \in 1..Len(emitted) :
        Len(emitted[k].samples) % emitted[k].channels = 0

----------------------------------------------------------------------------
(* C32: PeriodBuffer::new(buffer, L, S) fails exactly when the buffer has   *)
(* counted more samples than its capacity; otherwise the sequencer starts   *)
(* with next_period_end = L over the buffer as it was, whose oldest         *)
(* retained sample is sample 0 (every channel's first sample is still at    *)
(* the front of its ring), and the first window next() returns is [0, L).   *)
C32_State ==
    /\ (op = "PeriodBuffer::new" /\ panic = "none") =>
          /\ stage = "PeriodBuffer"
          /\ pb.next_period_end = pb.period_len
          /\ oldest_sample_index(Buffer) = 0
          /\ Buffer.sample_count >= 1 =>
                \A ch \in 0..(Buffer.channels - 1) :
                    RingContents(Buffer.buffers[ch])[1] = pushed[ch + 1]
    /\ (op = "PeriodBuffer::new" /\ panic # "none") =>
          /\ stage = "SampleBuffer"
          /\ Buffer.sample_count > Buffer.max_len
    /\ (stage = "PeriodBuffer" /\ view.valid /\ view.from = "next"
            /\ nwin = 1) =>
          view.period = View(0, pb.period_len)

C32_Step ==
    op' = "PeriodBuffer::new" =>
        /\ panic' # "none" <=> Buffer.sample_count > Buffer.max_len
        /\ pb'.buffer = pb.buffer

\* C32: PeriodBuffer::new refuses a buffer whose head has been evicted and
\* otherwise schedules the first window at [0, L).
C32_NewSequencer == []C32_State /\ [][C32_Step]_vars

\* A sequencer was built over a buffer that was exactly full.
C32_Witness ==
    /\ op = "PeriodBuffer::new" /\ panic = "none"
    /\ Buffer.sample_count = Buffer.max_len
    /\ pb.period_len = 2 /\ pb.next_period_end = 2

----------------------------------------------------------------------------
(* Wall-clock time *)

NANOS_PER_SEC == Wide(1000000000)

\* The samples of a duration beyond the whole seconds it was converted to.
WallRemainder == Wide_sub(tm_a.sample_count,
                          Wide_mul(tm_out.secs, tm_a.sample_rate))

\* C33: converting a Duration of n samples at a rate r >= 1 does not fail
\* and gives seconds = n div r and nanoseconds = ((n mod r) * 10^9) div r,
\* the nanoseconds being less than 10^9 and the product (n mod r) * 10^9
\* one that 64 bits hold.
C33_WallClock ==
    (tm_op = "time::Duration::from" /\ tm_a.sample_rate # <<>>) =>
        /\ tm_panic = "none"
        /\ Wide_le(Wide_mul(tm_out.secs, tm_a.sample_rate), tm_a.sample_count)
        /\ Wide_lt(WallRemainder, tm_a.sample_rate)
        /\ Wide_lt(Wide_mul(WallRemainder, NANOS_PER_SEC), U64_LIMIT)
        /\ Wide_le(Wide_mul(tm_out.nanos, tm_a.sample_rate),
                   Wide_mul(WallRemainder, NANOS_PER_SEC))
        /\ Wide_lt(Wide_mul(WallRemainder, NANOS_PER_SEC),
                   Wide_mul(Wide_add(tm_out.nanos, Wide(1)),
                            tm_a.sample_rate))
        /\ Wide_lt(tm_out.nanos, NANOS_PER_SEC)

\* Two seconds and all but one sample of a third at the greatest rate: the
\* greatest product, and 999999999 nanoseconds.
C33_Witness ==
    /\ tm_op = "time::Duration::from" /\ tm_panic = "none"
    /\ tm_a.sample_rate = Wide_sub(U32_LIMIT, Wide(1))
    /\ tm_out.secs = Wide(2)
    /\ tm_out.nanos = Wide(999999999)

----------------------------------------------------------------------------
\* C34: draining terminates: next() called again and again without a push
\* returns nothing after finitely many calls, whatever the length and the
\* stride (a stride of 0 included).  next() is a function of the
\* sequencer's state, so a call that returns a window and leaves the state
\* as it was is followed by the same window for ever: every call that
\* returns a window has to change the sequencer.
C34_DrainAdvances ==
    [][(op' = "next" /\ nwin' = nwin + 1) => pb' # pb]_vars

----------------------------------------------------------------------------
\* A step that is a PeriodBuffer::push of a frame of at most M - L + 1
\* samples per channel, on a sequencer of window length L <= M.
BoundedPush ==
    /\ stage = "PeriodBuffer" /\ panic = "none"
    /\ op' = "PeriodBuffer::push"
    /\ pb.period_len <= pb.buffer.max_len
    /\ pb'.buffer.sample_count - pb.buffer.sample_count
           <= pb.buffer.max_len - pb.period_len + 1

\* C35 as stated: a consumer that drains after every push never loses a
\* window.  Before its first push such a consumer has not been asked to
\* drain, and before each later one it has drained.
C35_KeepsUpAfterPush ==
    [][(BoundedPush /\ (op = "PeriodBuffer::new" \/ ~has_next(pb)))
           => panic' # "WindowLost"]_vars

\* What does hold: a push of at most M - L + 1 samples per channel on a
\* drained sequencer (next() would return nothing), the first push
\* included, never fails with WindowLost.
KeepsUpBeforePush ==
    [][(BoundedPush /\ ~has_next(pb)) => panic' # "WindowLost"]_vars

\* A push the assertion has passed that evicted samples right up to the
\* start of the next window, after a window was returned.
KeepsUpBoundary ==
    /\ stage = "PeriodBuffer" /\ op = "PeriodBuffer::push" /\ panic = "none"
    /\ nwin >= 1
    /\ pb.period_len >= 1 /\ pb.period_len <= pb.buffer.max_len
    /\ oldest_sample_index(pb.buffer) >= 1
    /\ pb.next_period_end - pb.period_len = oldest_sample_index(pb.buffer)

----------------------------------------------------------------------------
\* The samples per channel the BufferedInput's ring has taken so far.
InputCount == IF bi = Absent THEN 0 ELSE bi.buffer.sample_count

\* C36: a frame of at most period_len + 1 samples per channel that a
\* BufferedInput reads, in new or in a turn of the loop of next(), never
\* fails the sequencer's assertion (WindowLost), whatever was read and
\* returned before.
C36_InputKeepsUp ==
    [][(/\ bi_frames' = bi_frames + 1
        /\ bi'.buffer.sample_count - InputCount <= bi_period + 1)
           => bi_panic' # "WindowLost"]_vars

\* What does hold: the same for a period_len of at least 1.
InputKeepsUpFromOne ==
    [][(/\ bi_period >= 1
        /\ bi_frames' = bi_frames + 1
        /\ bi'.buffer.sample_count - InputCount <= bi_period + 1)
           => bi_panic' # "WindowLost"]_vars

\* Inside next(), after a window was returned: the frame just read has
\* evicted samples right up to the start of the next window.
InputKeepsUpBoundary ==
    /\ bi_pc = "next" /\ bi_panic = "none"
    /\ bi_win >= 1 /\ bi_period >= 1
    /\ oldest_sample_index(bi.buffer) >= 1
    /\ bi.next_period_end - bi.period_len = oldest_sample_index(bi.buffer)

----------------------------------------------------------------------------
\* C37: under any sequence of push_input and pop_output calls the
\* accumulation buffer never holds more than frame_len scalars (a buffer
\* longer than frame_len never has the length pop_output waits for, so no
\* frame is emitted again).
C37_BufferBounded ==
    acc # Absent => Len(acc.samples) <= acc.frame_len

----------------------------------------------------------------------------
\* C38: no channel ring of a SampleBuffer holds more than max_len samples,
\* whatever max_len (0 included) and whatever was pushed by push and
\* push_some_mono: each ring holds min(sample_count, max_len) samples, the
\* length len() assumes.
C38_RingBounded ==
    \A ch \in 0..(pb.buffer.channels - 1) :
        /\ pb.buffer.buffers[ch].len <= pb.buffer.max_len
        /\ pb.buffer.buffers[ch].len = SampleBuffer_len(pb.buffer)

\* What does hold: the same for a max_len of at least 1.
RingBoundedFromOne == pb.buffer.max_len >= 1 => C38_RingBounded

====
